---- MODULE Spec2Model ----
(***************************************************************************)
(* GitIn: the metric accumulators (source/metrics/...), their chunk merge   *)
(* functions, and the memory-aware job scheduler (memory_scheduler.py).     *)
(*                                                                          *)
(* SpecMetrics: one repository traversal.  Commits are dispatched to every  *)
(* accumulator (aggregator.calculate_metrics), then snapshots are taken.    *)
(* SpecSched: the scheduler's queue, worker threads and job tables.         *)
(***************************************************************************)
EXTENDS Integers, Sequences, FiniteSets, TLC

VARIABLES
    pool,       \* name of the commit alphabet the traversed repository draws from
    hist,       \* the commits dispatched so far, in traversal order
    phase,      \* "accumulating" | "snapshotted"  (accumulator life cycle)
    changeSet,  \* ChangeSetMetric.commits_file_count
    commitsAcc, \* CommitsMetric: [by_file, renamed]
    contribAcc, \* ContributorsMetric: [lines_by_author, renamed]
    hunksAcc,   \* HunksMetric: [by_file, renamed]
    devHours,   \* DeveloperHoursMetric: [sessions, stats]
    snaps,      \* the results of the get_metrics calls made so far
    tree,       \* the paths that exist in the repository after the last commit
    max_workers,\* the number of worker threads the scheduler was built with
    jobs,       \* the Job objects created by submit, in creation order
    heap,       \* job_queue.queue: the heap list of (-priority, job) entries
    unfinished, \* job_queue.unfinished_tasks
    active,     \* active_jobs: job id -> Job object
    completed,  \* completed_jobs
    failed,     \* failed_jobs
    lock,       \* holder of active_jobs_lock, or NoThread
    should_stop,\* the scheduler's stop flag
    wpc,        \* position of each worker thread in _worker_loop
    wjob,       \* the Job object each worker holds
    cpc,        \* position of the client thread in get_job_status / get_job_result
    cjob,       \* the job id the client asks about
    execCount,  \* how often each Job's function was started
    raiseCount, \* how often each Job's function raised
    mem,        \* what psutil.virtual_memory() returns at this moment
    spc,        \* position of the scheduler thread in _scheduler_loop
    rangeEnd,   \* calculate_metrics: the end of the requested range (since is 0)
    overallSeen,\* the commits dispatched to the overall accumulators
    weekSeen,   \* week label -> the commits dispatched to that week's accumulators
    since,      \* process_repo_directly: start_date, the start of the requested range
    to,         \* process_repo_directly: end_date, the end of the requested range
    chunk_count,\* the number of chunks asked of split_date_range
    date_chunks,\* the (chunk_start, chunk_end) list split_date_range returned
    commit_times,     \* the author dates of the repository's commits, oldest first
    path,             \* position of process_repo_directly
    estimated,        \* what estimate_repo_size returned
    batch_size,       \* process_repo_directly: batch_size
    disk,             \* the chunk commit files on disk: chunk index -> lines
    out,              \* the text written into the "commits" array of the output file
    total_commits,    \* process_repo_directly: total_commits
    chunk_i,          \* the number of chunks the chunk loop has been through
    commits_batch,    \* single-unit loop: commits_batch
    processed_commits,\* single-unit loop: processed_commits
    first_commit,     \* single-unit loop: first_commit
    traversed,        \* single-unit loop: the commits the loop has been through
    chunk_metrics,    \* the Contributors snapshots of the chunks processed so far
    merged_metrics,   \* what ContributorsMetric.merge_metrics made of them
    call_no,          \* how many calls of process_repos_with_scheduler have begun
    call_pc,          \* position of the running call of process_repos_with_scheduler
    repos,            \* the running call's repos, by repository name
    job_ids,          \* the running call's job_ids
    call_jobs,        \* the Job objects the running call's submits created
    results,          \* what get_job_result returned for each of job_ids
    developer_stats,  \* DiffDeltaMetric.developer_stats of the running chunk
    velocity_metrics, \* velocity_metrics["diff_delta"]: get_metrics() of the chunks
    merged_velocity,  \* DiffDeltaMetric.merge_metrics of them
    delta_commits,    \* how many commits DiffDeltaMetric has been handed
    unrealistic_commits, \* MeaningfulCodeMetric.unrealistic_commits
    author_times,     \* MeaningfulCodeMetric.commit_times: author -> time of a commit
    counted_commits,  \* the commits MeaningfulCodeMetric went on to count the lines of
    code_log,         \* every commit MeaningfulCodeMetric was handed, with its verdict
    line_history,     \* EnhancedCodeChurn.line_history: file -> line number -> author
    true_churn_metrics, \* EnhancedCodeChurn.true_churn_metrics
    lines_by_file,    \* code_churn_by_file, lines_added_by_file, lines_removed_by_file
    churn_commits     \* how many commits EnhancedCodeChurn has been handed

metricVars == <<pool, hist, phase, changeSet, commitsAcc, contribAcc, hunksAcc,
                devHours, snaps, tree>>

schedVars == <<max_workers, jobs, heap, unfinished, active, completed, failed, lock,
               should_stop, wpc, wjob, cpc, cjob, execCount, raiseCount>>

memVars == <<mem, spc>>

\* What the actions of one part of the program leave alone.
weekVars == <<rangeEnd, overallSeen, weekSeen>>

splitVars == <<since, to, chunk_count, date_chunks>>

repoVars == <<commit_times, estimated, batch_size>>

mergeVars == <<chunk_metrics, merged_metrics>>

callVars == <<call_no, call_pc, repos, job_ids, call_jobs, results>>

deltaVars == <<developer_stats, velocity_metrics, merged_velocity, delta_commits>>

codeVars == <<unrealistic_commits, author_times, counted_commits, code_log>>

churnVars == <<line_history, true_churn_metrics, lines_by_file, churn_commits>>

writeVars == <<disk, out, total_commits, chunk_i, commits_batch,
               processed_commits, first_commit, traversed>>

outsideSched == <<metricVars, memVars, weekVars, splitVars, path, repoVars, writeVars, mergeVars, callVars, deltaVars, codeVars, churnVars>>
outsideMetrics == <<schedVars, memVars, weekVars, splitVars, path, repoVars, writeVars, mergeVars, callVars, deltaVars, codeVars, churnVars>>
outsideMem == <<metricVars, schedVars, weekVars, splitVars, path, repoVars, writeVars, mergeVars, callVars, deltaVars, codeVars, churnVars>>
outsideWeeks == <<metricVars, schedVars, memVars, splitVars, path, repoVars, writeVars, mergeVars, callVars, deltaVars, codeVars, churnVars>>
outsideSplit == <<metricVars, schedVars, memVars, weekVars, path, repoVars, writeVars, mergeVars, callVars, deltaVars, codeVars, churnVars>>
outsideRepo == <<metricVars, schedVars, memVars, weekVars, mergeVars, callVars, deltaVars, codeVars, churnVars>>
outsideMerge == <<metricVars, schedVars, memVars, weekVars, splitVars, path, repoVars,
                  writeVars, callVars, deltaVars, codeVars, churnVars>>
outsideCall == <<metricVars, memVars, weekVars, splitVars, path, repoVars, writeVars,
                 mergeVars, deltaVars, codeVars, churnVars>>
outsideDelta == <<metricVars, schedVars, memVars, weekVars, splitVars, path, repoVars,
                  writeVars, mergeVars, callVars, codeVars, churnVars>>
outsideCode == <<metricVars, schedVars, memVars, weekVars, splitVars, path, repoVars,
                 writeVars, mergeVars, callVars, deltaVars, churnVars>>
outsideChurn == <<metricVars, schedVars, memVars, weekVars, splitVars, path, repoVars,
                  writeVars, mergeVars, callVars, deltaVars, codeVars>>

vars == <<metricVars, schedVars, memVars, weekVars, splitVars, path, repoVars,
          writeVars, mergeVars, callVars, deltaVars, codeVars, churnVars>>

(***************************************************************************)
(* Bounds of the model.                                                     *)
(***************************************************************************)
MaxCommits == 4
MaxSnaps == 2
MaxJobs == 3
MaxWorkers == 2
MaxBurstRuns == 4
MaxDispatched == 2
MaxRangeDays == 15
TicksPerDay == 2
MaxSplitDays == 7
MaxHundreds == 10
MaxRepoCommits == 3
MaxChunkedDays == 3
MaxBatchSize == 3
MaxChunkCommits == 2
MaxMerged == 3
MaxCalls == 2
MaxCallRepos == 2
MaxDeltaCommits == 3
MaxDeltaChunks == 2
MaxCodeCommits == 3
MaxChurnCommits == 3

(***************************************************************************)
(* Python dictionaries are functions with a finite domain.                  *)
(***************************************************************************)
EmptyDict == [x \in {} |-> 0]

DictGet(d, k, default) == IF k \in DOMAIN d THEN d[k] ELSE default

DictPut(d, k, v) == [x \in (DOMAIN d) \cup {k} |-> IF x = k THEN v ELSE d[x]]

RECURSIVE SumSeq(_)
SumSeq(s) == IF s = <<>> THEN 0 ELSE Head(s) + SumSeq(Tail(s))

RECURSIVE MaxSeq(_)
MaxSeq(s) == IF Len(s) = 1 THEN s[1]
             ELSE LET m == MaxSeq(Tail(s)) IN IF Head(s) > m THEN Head(s) ELSE m

RECURSIVE SumSet(_, _)
SumSet(S, f) == IF S = {} THEN 0
                ELSE LET x == CHOOSE y \in S : TRUE IN f[x] + SumSet(S \ {x}, f)

(***************************************************************************)
(* Python floats that arise as quotients of integers are kept as exact      *)
(* fractions <<n, d>> in lowest terms, d > 0; equality is then equality of  *)
(* values "up to floating-point rounding".                                  *)
(***************************************************************************)
Abs(n) == IF n < 0 THEN -n ELSE n

RECURSIVE Gcd(_, _)
Gcd(a, b) == IF b = 0 THEN a ELSE Gcd(b, a % b)

Rat(n, d) == LET g == Gcd(Abs(n), d) IN <<n \div g, d \div g>>

RatInt(n) == <<n, 1>>

RatAdd(p, q) == Rat(p[1] * q[2] + q[1] * p[2], p[2] * q[2])

RatMulInt(p, k) == Rat(p[1] * k, p[2])

RatDivInt(p, k) == Rat(p[1], p[2] * k)

RatLess(p, q) == p[1] * q[2] < q[1] * p[2]

RECURSIVE RatSum(_)
RatSum(s) == IF s = <<>> THEN RatInt(0) ELSE RatAdd(Head(s), RatSum(Tail(s)))

(***************************************************************************)
(* Commits.  A modified file carries its change type, paths and diff; a     *)
(* diff is the sequence of the first characters of its lines ("@" a hunk    *)
(* header, " " context, "+" added, "-" deleted).  added_lines and           *)
(* deleted_lines are the numbers of "+" and "-" lines, as PyDriller         *)
(* reports them.                                                            *)
(***************************************************************************)
None == "None"

RECURSIVE CountOf(_, _)
CountOf(s, ch) == IF s = <<>> THEN 0
                  ELSE (IF Head(s) = ch THEN 1 ELSE 0) + CountOf(Tail(s), ch)

Plus(n) == [i \in 1..n |-> "+"]

D0 == <<>>
D1 == <<"@", "+">>
D2 == <<"@", "+", " ", "-">>
D3 == <<"@", "+", " ", "-", " ", "+">>
DBig == <<"@">> \o Plus(20)

MF(type, old, new, diff) ==
    [change_type |-> type, old_path |-> old, new_path |-> new, diff |-> diff,
     added_lines |-> CountOf(diff, "+"), deleted_lines |-> CountOf(diff, "-")]

Add(f, diff) == MF("ADD", None, f, diff)
Modify(f, diff) == MF("MODIFY", f, f, diff)
Rename(old, new, diff) == MF("RENAME", old, new, diff)

\* An input commit: author e-mail, minutes since the previous commit, files.
InCommit(author, gap, files) == [author |-> author, gap |-> gap, files |-> files]

PoolNames == {"files", "hunks", "contributors", "change_set", "time"}

PoolCommits(p) ==
    CASE p = "files" ->
           { InCommit("alice", 60, <<Add("a", D1)>>),
             InCommit("alice", 60, <<Modify("a", D1)>>),
             InCommit("alice", 60, <<Modify("b", D1)>>),
             InCommit("alice", 60, <<Add("b", D1)>>),
             InCommit("alice", 60, <<Rename("a", "b", D0)>>),
             InCommit("alice", 60, <<Rename("b", "a", D1)>>),
             InCommit("alice", 60, <<Rename("b", "c", D1)>>) }
      [] p = "hunks" ->
           { InCommit("alice", 60, <<Modify("a", D1)>>),
             InCommit("alice", 60, <<Modify("a", D2)>>),
             InCommit("alice", 60, <<Modify("a", D3)>>),
             InCommit("alice", 60, <<Modify("a", D0)>>),
             InCommit("alice", 60, <<Modify("b", D2)>>) }
      [] p = "contributors" ->
           { InCommit("alice", 60, <<Modify("a", DBig)>>),
             InCommit("alice", 60, <<Modify("a", D1)>>),
             InCommit("bob", 60, <<Modify("a", D1)>>),
             InCommit("bob", 60, <<Modify("a", DBig)>>),
             InCommit("bob", 60, <<Modify("b", D1)>>),
             InCommit("carol", 60, <<Modify("a", D0)>>) }
      [] p = "change_set" ->
           { InCommit("alice", 60, <<>>),
             InCommit("alice", 60, <<Modify("a", D1)>>),
             InCommit("alice", 60, <<Modify("a", D1), Modify("b", D1)>>),
             InCommit("bob", 60, <<Modify("a", D1), Modify("b", D1), Add("c", D1)>>) }
      [] p = "time" ->
           { InCommit("alice", 20, <<Modify("a", D1)>>),
             InCommit("alice", 150, <<Modify("a", D2)>>),
             InCommit("alice", 3000, <<Modify("a", DBig)>>),
             InCommit("bob", 20, <<Modify("b", D1)>>),
             InCommit("bob", 9000, <<Modify("b", DBig)>>) }

\* The paths that exist when the traversal window [since, to] opens: none
\* for a history followed from its first commit, the files created earlier
\* otherwise.
InitialTree(p) == IF p = "files" THEN {} ELSE {"a", "b"}

\* Whether git can have produced the file changes on a tree, and the tree after.
RECURSIVE TreeAfter(_, _)
TreeAfter(t, files) ==
    IF files = <<>> THEN t
    ELSE LET mf == Head(files)
         IN TreeAfter((t \ {mf.old_path}) \cup {mf.new_path}, Tail(files))

RECURSIVE Applicable(_, _)
Applicable(t, files) ==
    IF files = <<>> THEN TRUE
    ELSE LET mf == Head(files)
         IN /\ CASE mf.change_type = "ADD" -> mf.new_path \notin t
                 [] mf.change_type = "MODIFY" -> mf.new_path \in t
                 [] mf.change_type = "RENAME" -> mf.old_path \in t /\ mf.new_path \notin t
            /\ Applicable(TreeAfter(t, <<mf>>), Tail(files))

\* The first commit of a traversal is made at 10:00 on a Monday (minutes).
StartTime == 600

LastTime(h) == IF h = <<>> THEN StartTime ELSE h[Len(h)].ts

\* The commit as the accumulators see it.
Stamp(c, h) == [author |-> c.author, ts |-> LastTime(h) + c.gap, files |-> c.files]

(***************************************************************************)
(* ChangeSetMetric (productivity/change_set.py)                             *)
(***************************************************************************)
ChangeSetInit == <<>>

ChangeSetProcess(st, c) == Append(st, Len(c.files))

ChangeSetGet(st) ==
    IF st = <<>> THEN [max |-> 0, avg |-> RatInt(0)]
    ELSE [max |-> MaxSeq(st), avg |-> Rat(SumSeq(st), Len(st))]

\* m.get("_count", 1)
ChangeSetCount(m) == IF "_count" \in DOMAIN m THEN m._count ELSE 1

ChangeSetMerge(ms) ==
    IF ms = <<>> THEN [max |-> 0, avg |-> RatInt(0)]
    ELSE LET total_sum == RatSum([i \in 1..Len(ms) |-> RatMulInt(ms[i].avg, ChangeSetCount(ms[i]))])
             total_count == SumSeq([i \in 1..Len(ms) |-> ChangeSetCount(ms[i])])
         IN [max |-> MaxSeq([i \in 1..Len(ms) |-> ms[i].max]),
             avg |-> IF total_count > 0 THEN RatDivInt(total_sum, total_count)
                     ELSE RatInt(0)]

(***************************************************************************)
(* The rename bookkeeping shared by the per-file accumulators:              *)
(*   filepath = renamed_files.get(new_path, new_path)                       *)
(*   if change_type == RENAME: renamed_files[old_path] = filepath           *)
(***************************************************************************)
FilePath(renamed, mf) == DictGet(renamed, mf.new_path, mf.new_path)

TrackRename(renamed, mf) ==
    IF mf.change_type = "RENAME" THEN DictPut(renamed, mf.old_path, FilePath(renamed, mf))
    ELSE renamed

(***************************************************************************)
(* CommitsMetric (productivity/commits.py)                                  *)
(***************************************************************************)
CommitsInit == [by_file |-> EmptyDict, renamed |-> EmptyDict]

CommitsProcessFile(st, mf) ==
    LET filepath == FilePath(st.renamed, mf)
    IN [by_file |-> DictPut(st.by_file, filepath, DictGet(st.by_file, filepath, 0) + 1),
        renamed |-> TrackRename(st.renamed, mf)]

RECURSIVE CommitsProcessFiles(_, _)
CommitsProcessFiles(st, files) ==
    IF files = <<>> THEN st
    ELSE CommitsProcessFiles(CommitsProcessFile(st, Head(files)), Tail(files))

CommitsProcess(st, c) == CommitsProcessFiles(st, c.files)

CommitsGet(st) == st.by_file

\* Element-wise sum of file -> number dictionaries.
RECURSIVE SumDicts(_)
SumDicts(ms) ==
    IF ms = <<>> THEN EmptyDict
    ELSE LET rest == SumDicts(Tail(ms))
             m == Head(ms)
         IN [f \in (DOMAIN m) \cup (DOMAIN rest) |->
                DictGet(m, f, 0) + DictGet(rest, f, 0)]

CommitsMerge(ms) == SumDicts(ms)

(***************************************************************************)
(* ContributorsMetric (productivity/contributors.py)                        *)
(***************************************************************************)
ContribInit == [lines_by_author |-> EmptyDict, renamed |-> EmptyDict]

ContribProcessFile(st, mf, author_email) ==
    LET filepath == FilePath(st.renamed, mf)
        lines_authored == mf.added_lines + mf.deleted_lines
        byAuthor == DictGet(st.lines_by_author, filepath, EmptyDict)
    IN [lines_by_author |->
            DictPut(st.lines_by_author, filepath,
                    DictPut(byAuthor, author_email,
                            DictGet(byAuthor, author_email, 0) + lines_authored)),
        renamed |-> TrackRename(st.renamed, mf)]

RECURSIVE ContribProcessFiles(_, _, _)
ContribProcessFiles(st, files, author_email) ==
    IF files = <<>> THEN st
    ELSE ContribProcessFiles(ContribProcessFile(st, Head(files), author_email),
                             Tail(files), author_email)

ContribProcess(st, c) == ContribProcessFiles(st, c.files, c.author)

\* v / total < 0.05
IsMinor(v, total) == v * 100 < 5 * total

ContribGet(st) ==
    LET lba == st.lines_by_author
        total(f) == SumSet(DOMAIN lba[f], lba[f])
        counted == {f \in DOMAIN lba : total(f) # 0}
    IN [total |-> [f \in counted |-> Cardinality(DOMAIN lba[f])],
        minor |-> [f \in counted |->
                     Cardinality({a \in DOMAIN lba[f] : IsMinor(lba[f][a], total(f))})]]

RECURSIVE MaxDicts(_)
MaxDicts(ms) ==
    IF ms = <<>> THEN EmptyDict
    ELSE LET rest == MaxDicts(Tail(ms))
             m == Head(ms)
             mx(x, y) == IF x > y THEN x ELSE y
         IN [f \in (DOMAIN m) \cup (DOMAIN rest) |->
                mx(DictGet(m, f, 0), DictGet(rest, f, 0))]

ContribMerge(ms) ==
    [total |-> MaxDicts([i \in 1..Len(ms) |-> ms[i].total]),
     minor |-> SumDicts([i \in 1..Len(ms) |-> ms[i].minor])]

(***************************************************************************)
(* HunksMetric (productivity/hunks.py)                                      *)
(***************************************************************************)
HunksInit == [by_file |-> EmptyDict, renamed |-> EmptyDict]

\* The number of maximal runs of lines that start with "+" or "-".
RECURSIVE CountHunks(_, _)
CountHunks(diff, is_hunk) ==
    IF diff = <<>> THEN 0
    ELSE IF Head(diff) \in {"+", "-"}
         THEN (IF is_hunk THEN 0 ELSE 1) + CountHunks(Tail(diff), TRUE)
         ELSE CountHunks(Tail(diff), FALSE)

HunksProcessFile(st, mf) ==
    LET filepath == FilePath(st.renamed, mf)
    IN [by_file |-> IF mf.diff # <<>>
                    THEN DictPut(st.by_file, filepath,
                                 Append(DictGet(st.by_file, filepath, <<>>),
                                        CountHunks(mf.diff, FALSE)))
                    ELSE st.by_file,
        renamed |-> TrackRename(st.renamed, mf)]

RECURSIVE HunksProcessFiles(_, _)
HunksProcessFiles(st, files) ==
    IF files = <<>> THEN st
    ELSE HunksProcessFiles(HunksProcessFile(st, Head(files)), Tail(files))

HunksProcess(st, c) == HunksProcessFiles(st, c.files)

\* sorted(): insertion into an ascending sequence.
RECURSIVE InsertSorted(_, _)
InsertSorted(s, x) ==
    IF s = <<>> THEN <<x>>
    ELSE IF x <= Head(s) THEN <<x>> \o s
         ELSE <<Head(s)>> \o InsertSorted(Tail(s), x)

RECURSIVE SortedSeq(_)
SortedSeq(s) == IF s = <<>> THEN <<>> ELSE InsertSorted(SortedSeq(Tail(s)), Head(s))

\* statistics.median
Median(s) ==
    LET d == SortedSeq(s)
        n == Len(d)
    IN IF n % 2 = 1 THEN RatInt(d[(n \div 2) + 1])
       ELSE Rat(d[n \div 2] + d[(n \div 2) + 1], 2)

HunksGet(st) == [f \in {g \in DOMAIN st.by_file : st.by_file[g] # <<>>} |->
                    Median(st.by_file[f])]

RECURSIVE SumRatDicts(_)
SumRatDicts(ms) ==
    IF ms = <<>> THEN EmptyDict
    ELSE LET rest == SumRatDicts(Tail(ms))
             m == Head(ms)
         IN [f \in (DOMAIN m) \cup (DOMAIN rest) |->
                RatAdd(DictGet(m, f, RatInt(0)), DictGet(rest, f, RatInt(0)))]

HunksMerge(ms) == SumRatDicts(ms)

(***************************************************************************)
(* DeveloperHoursMetric (timings/developer_hours.py)                        *)
(* Times are minutes; hours are kept in units of 1/60000 hour, in which     *)
(* every product with the adjustment factors is an integer.  round(x, 2)    *)
(* yields hundredths of an hour.                                            *)
(***************************************************************************)
UnitsPerHour == 60000
UnitsPerHundredth == 600
MinutesPerDay == 1440
MinutesPerWeek == 10080

max_commit_gap == 120
min_session_length == 30
default_first_commit_time == 30
default_last_commit_time == 15

\* round(): to the nearest integer quotient, ties to even.
RoundHalfEven(n, d) ==
    LET q == n \div d
        r == n % d
    IN IF 2 * r < d THEN q
       ELSE IF 2 * r > d THEN q + 1
       ELSE IF q % 2 = 0 THEN q ELSE q + 1

\* _calculate_meaningful_changes: every entry of diff_parsed is a
\* (line_no, text) tuple, on which _is_meaningful_line raises; the except
\* clause returns 0.  Files without parsed lines add nothing.
MeaningfulChanges(c) == 0

RawChanges(c) ==
    SumSeq([i \in 1..Len(c.files) |-> c.files[i].added_lines + c.files[i].deleted_lines])

DevHoursInit == [sessions |-> EmptyDict, stats |-> EmptyDict]

DevHoursProcess(st, c) ==
    LET meaningful == MeaningfulChanges(c)
        entry == [timestamp |-> c.ts, raw_changes |-> RawChanges(c),
                  meaningful_changes |-> meaningful,
                  changes |-> IF meaningful > 0 THEN meaningful ELSE RawChanges(c)]
    IN [st EXCEPT !.sessions =
            DictPut(st.sessions, c.author,
                    Append(DictGet(st.sessions, c.author, <<>>), entry))]

\* sorted(commits, key=timestamp): stable insertion sort.
RECURSIVE InsertByTime(_, _)
InsertByTime(s, x) ==
    IF s = <<>> THEN <<x>>
    ELSE IF x.timestamp < Head(s).timestamp THEN <<x>> \o s
         ELSE <<Head(s)>> \o InsertByTime(Tail(s), x)

RECURSIVE SortByTime(_)
SortByTime(s) ==
    IF s = <<>> THEN <<>>
    ELSE InsertByTime(SortByTime(SubSeq(s, 1, Len(s) - 1)), s[Len(s)])

NewSession(commit_data) ==
    [start |-> commit_data.timestamp - default_first_commit_time,
     end |-> commit_data.timestamp,
     commits |-> <<commit_data>>]

Finalize(session) ==
    [start |-> session.start,
     end |-> session.end + default_last_commit_time,
     commits |-> session.commits,
     duration |-> session.end + default_last_commit_time - session.start]

\* The loop of calculate_sessions over the sorted commits of one developer:
\* the finished sessions, and the session still open.
RECURSIVE GroupSessions(_, _, _)
GroupSessions(sorted_commits, sessions, current_session) ==
    IF sorted_commits = <<>> THEN sessions \o <<Finalize(current_session)>>
    ELSE LET commit_data == Head(sorted_commits)
             time_since_last == commit_data.timestamp - current_session.end
         IN IF time_since_last <= max_commit_gap
            THEN GroupSessions(Tail(sorted_commits), sessions,
                               [current_session EXCEPT
                                   !.end = commit_data.timestamp,
                                   !.commits = Append(@, commit_data)])
            ELSE GroupSessions(Tail(sorted_commits),
                               Append(sessions, Finalize(current_session)),
                               NewSession(commit_data))

SessionsOf(commits) ==
    LET sorted_commits == SortByTime(commits)
    IN IF sorted_commits = <<>> THEN <<>>
       ELSE GroupSessions(Tail(sorted_commits), <<>>, NewSession(Head(sorted_commits)))

\* _calculate_session_hours, in units of 1/60000 hour.
SessionHours(session) ==
    LET commit_count == Len(session.commits)
        changes == SumSeq([i \in 1..Len(session.commits) |->
                              session.commits[i].meaningful_changes])
        f1 == IF commit_count = 1 THEN 750
              ELSE IF commit_count > 10 THEN 900 ELSE 1000
        \* hours after the first adjustment, in units: duration/60 * f1/1000
        hours1 == session.duration * f1
        floor == UnitsPerHour \div 10          \* max(0.1, hours)
        denom == IF hours1 < floor THEN floor ELSE hours1
        \* changes_per_hour = changes * UnitsPerHour / denom
        f2 == IF changes * UnitsPerHour > 1000 * denom THEN 8
              ELSE IF changes * UnitsPerHour < 50 * denom THEN 11 ELSE 10
        hours == (hours1 * f2) \div 10
        cap == 8 * UnitsPerHour
    IN IF hours < cap THEN hours ELSE cap

WeekKey(t) == t \div MinutesPerWeek
DayKey(t) == t \div MinutesPerDay

EmptyWeekStats == [estimated_hours |-> 0, sessions |-> 0, commits |-> 0,
                   productive_days |-> {}, hours_per_day |-> RatInt(0)]

EmptyDevStats == [weekly_hours |-> EmptyDict, total_hours |-> 0,
                  total_sessions |-> 0, total_estimated_hours |-> 0]

\* The first loop of _process_sessions_to_weekly_stats.
RECURSIVE AddSessions(_, _)
AddSessions(dev_stats, sessions) ==
    IF sessions = <<>> THEN dev_stats
    ELSE LET session == Head(sessions)
         IN IF session.duration < min_session_length
            THEN AddSessions(dev_stats, Tail(sessions))
            ELSE LET week_key == WeekKey(session.start)
                     session_hours == SessionHours(session)
                     ws == DictGet(dev_stats.weekly_hours, week_key, EmptyWeekStats)
                     ws2 == [ws EXCEPT
                               !.estimated_hours = @ + session_hours,
                               !.sessions = @ + 1,
                               !.commits = @ + Len(session.commits),
                               !.productive_days = @ \cup {DayKey(session.start)}]
                 IN AddSessions(
                        [weekly_hours |-> DictPut(dev_stats.weekly_hours, week_key, ws2),
                         total_hours |-> dev_stats.total_hours + session_hours,
                         total_sessions |-> dev_stats.total_sessions + 1,
                         total_estimated_hours |->
                             dev_stats.total_estimated_hours + session_hours],
                        Tail(sessions))

\* The second loop: hours per productive day of every week.
HoursPerDay(dev_stats) ==
    [dev_stats EXCEPT !.weekly_hours =
        [w \in DOMAIN dev_stats.weekly_hours |->
            LET ws == dev_stats.weekly_hours[w]
            IN IF Cardinality(ws.productive_days) > 0
               THEN [ws EXCEPT !.hours_per_day =
                        Rat(ws.estimated_hours, Cardinality(ws.productive_days))]
               ELSE ws]]

ProcessSessionsToWeeklyStats(dev_stats, sessions) ==
    HoursPerDay(AddSessions(dev_stats, sessions))

\* calculate_sessions: updates developer_stats of every developer.
CalculateSessions(st) ==
    [st EXCEPT !.stats =
        [d \in (DOMAIN st.stats) \cup (DOMAIN st.sessions) |->
            IF d \in DOMAIN st.sessions
            THEN ProcessSessionsToWeeklyStats(DictGet(st.stats, d, EmptyDevStats),
                                              SessionsOf(st.sessions[d]))
            ELSE st.stats[d]]]

\* The result dictionary built by get_metrics from developer_stats.
DevHoursResult(stats) ==
    [d \in DOMAIN stats |->
        [total_estimated_hours |-> stats[d].total_estimated_hours,
         total_sessions |-> stats[d].total_sessions,
         weekly_hours |->
            [w \in DOMAIN stats[d].weekly_hours |->
                LET ws == stats[d].weekly_hours[w]
                IN [estimated_hours |-> RoundHalfEven(ws.estimated_hours, UnitsPerHundredth),
                    sessions |-> ws.sessions,
                    commits |-> ws.commits,
                    hours_per_day |-> RoundHalfEven(ws.hours_per_day[1],
                                                    ws.hours_per_day[2] * UnitsPerHundredth)]]]]

\* get_metrics first runs calculate_sessions on the accumulator.
DevHoursAfterGet(st) == CalculateSessions(st)

DevHoursGet(st) == DevHoursResult(DevHoursAfterGet(st).stats)

\* merge_metrics, over snapshots (hours in hundredths).
DevHoursMergeWeek(ms, d, w) ==
    LET has(i) == d \in DOMAIN ms[i] /\ w \in DOMAIN ms[i][d].weekly_hours
        wk(i) == ms[i][d].weekly_hours[w]
        idx == {i \in 1..Len(ms) : has(i)}
        est == SumSet(idx, [i \in idx |-> wk(i).estimated_hours])
        days == UNION {IF "productive_days" \in DOMAIN wk(i)
                       THEN wk(i).productive_days ELSE {} : i \in idx}
        num_productive_days == Cardinality(days)
    IN [estimated_hours |-> est,
        sessions |-> SumSet(idx, [i \in idx |-> wk(i).sessions]),
        commits |-> SumSet(idx, [i \in idx |-> wk(i).commits]),
        hours_per_day |-> IF num_productive_days > 0
                          THEN RoundHalfEven(est, num_productive_days) ELSE 0]

DevHoursMerge(ms) ==
    LET devs == UNION {DOMAIN ms[i] : i \in 1..Len(ms)}
        have(d) == {i \in 1..Len(ms) : d \in DOMAIN ms[i]}
    IN [d \in devs |->
          [total_estimated_hours |->
               SumSet(have(d), [i \in have(d) |-> ms[i][d].total_estimated_hours]),
           total_sessions |->
               SumSet(have(d), [i \in have(d) |-> ms[i][d].total_sessions]),
           weekly_hours |->
               [w \in UNION {DOMAIN ms[i][d].weekly_hours : i \in have(d)} |->
                   DevHoursMergeWeek(ms, d, w)]]]

(***************************************************************************)
(* One traversal (aggregator.calculate_metrics): every commit is handed to  *)
(* every accumulator; afterwards get_metrics is called on each.             *)
(***************************************************************************)
InitMetrics ==
    /\ pool \in PoolNames
    /\ hist = <<>>
    /\ phase = "accumulating"
    /\ changeSet = ChangeSetInit
    /\ commitsAcc = CommitsInit
    /\ contribAcc = ContribInit
    /\ hunksAcc = HunksInit
    /\ devHours = DevHoursInit
    /\ snaps = <<>>
    /\ tree = InitialTree(pool)

ProcessCommit ==
    /\ phase = "accumulating"
    /\ Len(hist) < MaxCommits
    /\ \E ic \in PoolCommits(pool) :
          LET c == Stamp(ic, hist)
          IN /\ Applicable(tree, ic.files)
             /\ tree' = TreeAfter(tree, ic.files)
             /\ hist' = Append(hist, c)
             /\ changeSet' = ChangeSetProcess(changeSet, c)
             /\ commitsAcc' = CommitsProcess(commitsAcc, c)
             /\ contribAcc' = ContribProcess(contribAcc, c)
             /\ hunksAcc' = HunksProcess(hunksAcc, c)
             /\ devHours' = DevHoursProcess(devHours, c)
    /\ UNCHANGED <<pool, phase, snaps, outsideMetrics>>

GetMetrics ==
    /\ Len(snaps) < MaxSnaps
    /\ phase' = "snapshotted"
    /\ snaps' = Append(snaps, [change_set |-> ChangeSetGet(changeSet),
                               commits_count |-> CommitsGet(commitsAcc),
                               contributors_count |-> ContribGet(contribAcc),
                               hunks_count |-> HunksGet(hunksAcc),
                               developer_hours |-> DevHoursGet(devHours)])
    /\ devHours' = DevHoursAfterGet(devHours)
    /\ UNCHANGED <<pool, hist, changeSet, commitsAcc, contribAcc, hunksAcc, tree, outsideMetrics>>

NextMetrics == ProcessCommit \/ GetMetrics

(***************************************************************************)
(* Chunked processing: the history cut into n contiguous non-empty chunks,  *)
(* a fresh accumulator run over each.                                       *)
(***************************************************************************)
\* Strictly increasing sequences of n-1 cut points inside a history of length len.
CutSets(len, n) == {S \in SUBSET (1..(len - 1)) : Cardinality(S) = n - 1}

\* The i-th of the chunks that the cut set S makes of R.
ChunkAt(R, S, i) ==
    LET below(k) == Cardinality({x \in S : x < k})
        idx == {k \in 1..Len(R) : below(k) = i - 1}
        lo == CHOOSE k \in idx : \A j \in idx : k <= j
        hi == CHOOSE k \in idx : \A j \in idx : k >= j
    IN SubSeq(R, lo, hi)

Chunks(R, S) == [i \in 1..(Cardinality(S) + 1) |-> ChunkAt(R, S, i)]

RECURSIVE ChangeSetRun(_, _)
ChangeSetRun(st, R) ==
    IF R = <<>> THEN st ELSE ChangeSetRun(ChangeSetProcess(st, Head(R)), Tail(R))

RECURSIVE CommitsRun(_, _)
CommitsRun(st, R) ==
    IF R = <<>> THEN st ELSE CommitsRun(CommitsProcess(st, Head(R)), Tail(R))

RECURSIVE ContribRun(_, _)
ContribRun(st, R) ==
    IF R = <<>> THEN st ELSE ContribRun(ContribProcess(st, Head(R)), Tail(R))

RECURSIVE HunksRun(_, _)
HunksRun(st, R) ==
    IF R = <<>> THEN st ELSE HunksRun(HunksProcess(st, Head(R)), Tail(R))

RECURSIVE DevHoursRun(_, _)
DevHoursRun(st, R) ==
    IF R = <<>> THEN st ELSE DevHoursRun(DevHoursProcess(st, Head(R)), Tail(R))

ChangeSetSnap(R) == ChangeSetGet(ChangeSetRun(ChangeSetInit, R))
CommitsSnap(R) == CommitsGet(CommitsRun(CommitsInit, R))
ContribSnap(R) == ContribGet(ContribRun(ContribInit, R))
HunksSnap(R) == HunksGet(HunksRun(HunksInit, R))
DevHoursSnap(R) == DevHoursGet(DevHoursRun(DevHoursInit, R))

ChunkCounts == {2, 3, 4}

\* All ways of cutting the history so far into n chunks, n in ChunkCounts.
AllCuts == UNION {CutSets(Len(hist), n) : n \in ChunkCounts}

(***************************************************************************)
(* Claims about the accumulators.                                           *)
(***************************************************************************)

\* C1: for every accumulator and every reachable state, merging the
\* one-element list holding its snapshot returns that snapshot:
\* merge([snapshot()]) == snapshot().
C1_MergeOfSingletonIsSnapshot ==
    \A i \in 1..Len(snaps) :
        /\ ChangeSetMerge(<<snaps[i].change_set>>) = snaps[i].change_set
        /\ CommitsMerge(<<snaps[i].commits_count>>) = snaps[i].commits_count
        /\ ContribMerge(<<snaps[i].contributors_count>>) = snaps[i].contributors_count
        /\ HunksMerge(<<snaps[i].hunks_count>>) = snaps[i].hunks_count
        /\ DevHoursMerge(<<snaps[i].developer_hours>>) = snaps[i].developer_hours

\* C2: merge is associative for every metric: for snapshots a, b, c of three
\* consecutive chunks, merge([merge([a, b]), c]), merge([a, merge([b, c])])
\* and merge([a, b, c]) are equal.
C2_MergeIsAssociative ==
    \A S \in CutSets(Len(hist), 3) :
        LET ch == Chunks(hist, S)
        IN /\ LET a == ChangeSetSnap(ch[1])
                  b == ChangeSetSnap(ch[2])
                  c == ChangeSetSnap(ch[3])
              IN /\ ChangeSetMerge(<<ChangeSetMerge(<<a, b>>), c>>) = ChangeSetMerge(<<a, b, c>>)
                 /\ ChangeSetMerge(<<a, ChangeSetMerge(<<b, c>>)>>) = ChangeSetMerge(<<a, b, c>>)
           /\ LET a == CommitsSnap(ch[1])
                  b == CommitsSnap(ch[2])
                  c == CommitsSnap(ch[3])
              IN /\ CommitsMerge(<<CommitsMerge(<<a, b>>), c>>) = CommitsMerge(<<a, b, c>>)
                 /\ CommitsMerge(<<a, CommitsMerge(<<b, c>>)>>) = CommitsMerge(<<a, b, c>>)
           /\ LET a == ContribSnap(ch[1])
                  b == ContribSnap(ch[2])
                  c == ContribSnap(ch[3])
              IN /\ ContribMerge(<<ContribMerge(<<a, b>>), c>>) = ContribMerge(<<a, b, c>>)
                 /\ ContribMerge(<<a, ContribMerge(<<b, c>>)>>) = ContribMerge(<<a, b, c>>)
           /\ LET a == HunksSnap(ch[1])
                  b == HunksSnap(ch[2])
                  c == HunksSnap(ch[3])
              IN /\ HunksMerge(<<HunksMerge(<<a, b>>), c>>) = HunksMerge(<<a, b, c>>)
                 /\ HunksMerge(<<a, HunksMerge(<<b, c>>)>>) = HunksMerge(<<a, b, c>>)

\* C3: for any history and any n in {2, 3, 4}, merging the CommitsCount
\* snapshots of n contiguous chunks gives the file -> count map of one
\* accumulator run over the whole history.
C3_CommitsChunkMergeEqualsWhole ==
    \A S \in AllCuts :
        LET ch == Chunks(hist, S)
        IN CommitsMerge([i \in 1..Len(ch) |-> CommitsSnap(ch[i])]) = CommitsGet(commitsAcc)

\* C4: for any history and any n in {2, 3, 4}, merging the Hunks snapshots of
\* n contiguous chunks gives, for every file, the value of the snapshot of
\* one accumulator run over the whole history.
C4_HunksChunkMergeEqualsWhole ==
    \A S \in AllCuts :
        LET ch == Chunks(hist, S)
        IN HunksMerge([i \in 1..Len(ch) |-> HunksSnap(ch[i])]) = HunksGet(hunksAcc)

\* C5: for any history and any n in {2, 3, 4}, merging the Contributors
\* snapshots of n contiguous chunks gives, for every file, the minor
\* contributor count of one accumulator run over the whole history.
C5_MinorChunkMergeEqualsWhole ==
    \A S \in AllCuts :
        LET ch == Chunks(hist, S)
        IN ContribMerge([i \in 1..Len(ch) |-> ContribSnap(ch[i])]).minor
              = ContribGet(contribAcc).minor

\* C6: the ChangeSet snapshot carries the number of commits it was computed
\* from, and merging the snapshots of chunks gives the avg and max of one
\* accumulator run over all the commits.
C6_ChangeSetWeightedMerge ==
    /\ hist # <<>> => ChangeSetCount(ChangeSetGet(changeSet)) = Len(hist)
    /\ \A S \in AllCuts :
          LET ch == Chunks(hist, S)
          IN ChangeSetMerge([i \in 1..Len(ch) |-> ChangeSetSnap(ch[i])])
                = ChangeSetGet(changeSet)

\* C7: get_metrics called twice in a row, with no process_commit in between,
\* returns equal values for every accumulator.
C7_SnapshotIdempotent ==
    \A i, j \in 1..Len(snaps) : snaps[i] = snaps[j]

(***************************************************************************)
(* The job queue (memory_scheduler.py): queue.PriorityQueue over heapq.     *)
(* An entry is the tuple (-priority, job).  Job is a dataclass without      *)
(* order=True: comparing two entries of equal priority compares the Job     *)
(* objects, which raises TypeError unless they are the same object.         *)
(***************************************************************************)
Entry(np, j) == [np |-> np, job |-> j]

\* (-p1, job1) < (-p2, job2): "lt", "ge", or "err" for the TypeError.
EntryLess(a, b) ==
    IF a.np # b.np THEN (IF a.np < b.np THEN "lt" ELSE "ge")
    ELSE IF a.job = b.job THEN "ge"
    ELSE "err"

Swap(arr, i, j) == [arr EXCEPT ![i] = arr[j], ![j] = arr[i]]

\* heapq siftdown(heap, startpos, pos); positions are 0-based as in heapq,
\* arr[k + 1] is the item at position k.  Result: the list and whether a
\* comparison raised.
RECURSIVE SiftDown(_, _, _)
SiftDown(arr, startpos, pos) ==
    IF pos > startpos
    THEN LET parentpos == (pos - 1) \div 2
             cmp == EntryLess(arr[pos + 1], arr[parentpos + 1])
         IN IF cmp = "err" THEN [heap |-> arr, err |-> TRUE]
            ELSE IF cmp = "ge" THEN [heap |-> arr, err |-> FALSE]
            ELSE SiftDown(Swap(arr, pos + 1, parentpos + 1), startpos, parentpos)
    ELSE [heap |-> arr, err |-> FALSE]

\* heapq siftup(heap, pos): the smaller child is bubbled up until a leaf is
\* reached, then the item is sifted down from there.
RECURSIVE SiftUpLoop(_, _, _)
SiftUpLoop(arr, startpos, pos) ==
    LET endpos == Len(arr)
        limit == endpos \div 2
    IN IF pos < limit
       THEN LET left == 2 * pos + 1
                cmp == IF left + 1 < endpos
                       THEN EntryLess(arr[left + 1], arr[left + 2])
                       ELSE "lt"
                childpos == IF cmp = "lt" THEN left ELSE left + 1
            IN IF cmp = "err" THEN [heap |-> arr, err |-> TRUE]
               ELSE SiftUpLoop(Swap(arr, childpos + 1, pos + 1), startpos, childpos)
       ELSE SiftDown(arr, startpos, pos)

\* heapq.heappush: the item is appended before the comparisons are made, so
\* it is in the list also when a comparison raises.
HeapPush(arr, item) == SiftDown(Append(arr, item), 0, Len(arr))

\* heapq.heappop on a non-empty list: when a comparison raises the item that
\* was at the top has already been replaced by the last one and is dropped.
HeapPop(arr) ==
    LET n == Len(arr)
        lastelt == arr[n]
        rest == SubSeq(arr, 1, n - 1)
    IN IF n = 1 THEN [heap |-> <<>>, err |-> FALSE, item |-> lastelt]
       ELSE LET r == SiftUpLoop([rest EXCEPT ![1] = lastelt], 0, 0)
            IN [heap |-> r.heap, err |-> r.err, item |-> rest[1]]

(***************************************************************************)
(* MemoryAwareScheduler                                                     *)
(***************************************************************************)
\* The threads start() launches, and the ones it may launch at most.
Workers == 1..max_workers
WorkerIds == 1..MaxWorkers
Client == 0
NoThread == -1
NoJob == 0
Priorities == {0, 1}
default_max_retries == 2

\* Job ids are unique: submit's default id, or one id per repository.
JobId(j) == j

NewJob(j, priority) ==
    [id |-> JobId(j), priority |-> priority, max_retries |-> default_max_retries,
     retry_count |-> 0, status |-> "pending"]

\* The scheduler as __init__ builds it and start() sets it going: the worker
\* threads exist and wait for jobs, nothing has been submitted.
InitSched ==
    /\ max_workers \in 1..MaxWorkers
    /\ jobs = <<>>
    /\ heap = <<>>
    /\ unfinished = 0
    /\ active = EmptyDict
    /\ completed = EmptyDict
    /\ failed = EmptyDict
    /\ lock = NoThread
    /\ should_stop = FALSE
    /\ wpc = [w \in Workers |-> "idle"]
    /\ wjob = [w \in Workers |-> NoJob]
    /\ cpc = "idle"
    /\ cjob = NoJob
    /\ execCount = <<>>
    /\ raiseCount = <<>>

\* queue.put((-priority, job)): unfinished_tasks is incremented only when
\* the push did not raise.
QueuePut(arr, n, item) ==
    LET r == HeapPush(arr, item)
    IN [heap |-> r.heap, unfinished |-> IF r.err THEN n ELSE n + 1, err |-> r.err]

\* submit(): creates the Job and puts it on the queue; a TypeError of the
\* put reaches the caller.
Submit(priority) ==
    /\ cpc = "idle"
    /\ LET j == Len(jobs) + 1
           r == QueuePut(heap, unfinished, Entry(-priority, j))
       IN /\ jobs' = Append(jobs, NewJob(j, priority))
          /\ heap' = r.heap
          /\ unfinished' = r.unfinished
    /\ execCount' = Append(execCount, 0)
    /\ raiseCount' = Append(raiseCount, 0)
    /\ UNCHANGED <<outsideSched, max_workers, active, completed, failed, lock, should_stop, wpc,
                   wjob, cpc, cjob>>

\* stop() on a running scheduler: sets the flag the worker loops poll.
Stop ==
    /\ cpc = "idle"
    /\ ~should_stop
    /\ should_stop' = TRUE
    /\ UNCHANGED <<outsideSched, max_workers, jobs, heap, unfinished, active, completed, failed, lock, wpc,
                   wjob, cpc, cjob, execCount, raiseCount>>

(***************************************************************************)
(* _worker_loop                                                             *)
(***************************************************************************)
\* job_queue.get(timeout=1) on a non-empty queue.  A TypeError of the pop is
\* caught by the outer except clause and the loop starts over.
WorkerGet(w) ==
    /\ w \in Workers
    /\ wpc[w] = "idle"
    /\ ~should_stop
    /\ heap # <<>>
    /\ LET r == HeapPop(heap)
       IN /\ heap' = r.heap
          /\ IF r.err
             THEN UNCHANGED <<outsideSched, max_workers, wpc, wjob>>
             ELSE /\ wpc' = [wpc EXCEPT ![w] = "got"]
                  /\ wjob' = [wjob EXCEPT ![w] = r.item.job]
    /\ UNCHANGED <<outsideSched, max_workers, jobs, unfinished, active, completed, failed, lock, should_stop,
                   cpc, cjob, execCount, raiseCount>>

\* A with-block that does not take the lock.
LockNotTaken(l, t) == l

\* with self.active_jobs_lock: entering the block.
LockAcquire(l, t) == IF l = NoThread THEN t ELSE l

\* job.status = "running", then the lock is taken.
WorkerLockAdd(w) ==
    /\ w \in Workers
    /\ wpc[w] = "got"
    /\ lock = NoThread
    /\ lock' = LockAcquire(lock, w)
    /\ jobs' = [jobs EXCEPT ![wjob[w]].status = "running"]
    /\ wpc' = [wpc EXCEPT ![w] = "add_active"]
    /\ UNCHANGED <<outsideSched, max_workers, heap, unfinished, active, completed, failed, should_stop, wjob,
                   cpc, cjob, execCount, raiseCount>>

\* self.active_jobs[job.id] = job, and the block is left.
WorkerAddActive(w) ==
    /\ w \in Workers
    /\ wpc[w] = "add_active"
    /\ active' = DictPut(active, jobs[wjob[w]].id, wjob[w])
    /\ lock' = IF lock = w THEN NoThread ELSE lock
    /\ wpc' = [wpc EXCEPT ![w] = "run"]
    /\ UNCHANGED <<outsideSched, max_workers, jobs, heap, unfinished, completed, failed, should_stop, wjob,
                   cpc, cjob, execCount, raiseCount>>

\* A job function that is stopped when stop() has been requested.
ExecutesUnlessStopped(w) == wpc[w] = "run" /\ ~should_stop

\* job.func(*job.args, **job.kwargs) is called and runs to its end: nothing
\* between the call and its return or exception looks at should_stop.
Executes(w) == wpc[w] = "run"

\* job.func(...) returns: job.status = "completed".
WorkerRunReturns(w) ==
    /\ w \in Workers
    /\ Executes(w)
    /\ execCount' = [execCount EXCEPT ![wjob[w]] = @ + 1]
    /\ jobs' = [jobs EXCEPT ![wjob[w]].status = "completed"]
    /\ wpc' = [wpc EXCEPT ![w] = "store_completed"]
    /\ UNCHANGED <<outsideSched, max_workers, heap, unfinished, active, completed, failed, lock, should_stop,
                   wjob, cpc, cjob, raiseCount>>

\* job.func(...) raises: job.status = "failed".
WorkerRunRaises(w) ==
    /\ w \in Workers
    /\ Executes(w)
    /\ execCount' = [execCount EXCEPT ![wjob[w]] = @ + 1]
    /\ raiseCount' = [raiseCount EXCEPT ![wjob[w]] = @ + 1]
    /\ jobs' = [jobs EXCEPT ![wjob[w]].status = "failed"]
    /\ wpc' = [wpc EXCEPT ![w] =
                  IF jobs[wjob[w]].retry_count < jobs[wjob[w]].max_retries
                  THEN "requeue" ELSE "store_failed"]
    /\ UNCHANGED <<outsideSched, max_workers, heap, unfinished, active, completed, failed, lock, should_stop,
                   wjob, cpc, cjob>>

\* self.completed_jobs[job.id] = job
WorkerStoreCompleted(w) ==
    /\ w \in Workers
    /\ wpc[w] = "store_completed"
    /\ completed' = DictPut(completed, jobs[wjob[w]].id, wjob[w])
    /\ wpc' = [wpc EXCEPT ![w] = "finally"]
    /\ UNCHANGED <<outsideSched, max_workers, jobs, heap, unfinished, active, failed, lock, should_stop, wjob,
                   cpc, cjob, execCount, raiseCount>>

\* The retry branch: retry_count += 1, status = "pending", queue.put.  A
\* TypeError of the put leaves the except clause through the finally block.
WorkerRequeue(w) ==
    /\ w \in Workers
    /\ wpc[w] = "requeue"
    /\ LET j == wjob[w]
           r == QueuePut(heap, unfinished, Entry(-jobs[j].priority, j))
       IN /\ jobs' = [jobs EXCEPT ![j].retry_count = @ + 1, ![j].status = "pending"]
          /\ heap' = r.heap
          /\ unfinished' = r.unfinished
    /\ wpc' = [wpc EXCEPT ![w] = "finally"]
    /\ UNCHANGED <<outsideSched, max_workers, active, completed, failed, lock, should_stop, wjob, cpc, cjob,
                   execCount, raiseCount>>

\* self.failed_jobs[job.id] = job
WorkerStoreFailed(w) ==
    /\ w \in Workers
    /\ wpc[w] = "store_failed"
    /\ failed' = DictPut(failed, jobs[wjob[w]].id, wjob[w])
    /\ wpc' = [wpc EXCEPT ![w] = "finally"]
    /\ UNCHANGED <<outsideSched, max_workers, jobs, heap, unfinished, active, completed, lock, should_stop,
                   wjob, cpc, cjob, execCount, raiseCount>>

\* finally: with self.active_jobs_lock: entering the block.
WorkerLockDel(w) ==
    /\ w \in Workers
    /\ wpc[w] = "finally"
    /\ lock = NoThread
    /\ lock' = LockAcquire(lock, w)
    /\ wpc' = [wpc EXCEPT ![w] = "del_active"]
    /\ UNCHANGED <<outsideSched, max_workers, jobs, heap, unfinished, active, completed, failed, should_stop,
                   wjob, cpc, cjob, execCount, raiseCount>>

DictDel(d, k) == [x \in (DOMAIN d) \ {k} |-> d[x]]

\* if job.id in self.active_jobs: del ...; the block is left; then
\* job_queue.task_done(), which raises ValueError at zero.
WorkerDelActive(w) ==
    /\ w \in Workers
    /\ wpc[w] = "del_active"
    /\ active' = DictDel(active, jobs[wjob[w]].id)
    /\ lock' = IF lock = w THEN NoThread ELSE lock
    /\ unfinished' = IF unfinished > 0 THEN unfinished - 1 ELSE unfinished
    /\ wpc' = [wpc EXCEPT ![w] = "idle"]
    /\ wjob' = [wjob EXCEPT ![w] = NoJob]
    /\ UNCHANGED <<outsideSched, max_workers, jobs, heap, completed, failed, should_stop, cpc, cjob,
                   execCount, raiseCount>>

(***************************************************************************)
(* The client thread: get_job_status, get_job_result, get_stats             *)
(***************************************************************************)
JobIds == {JobId(j) : j \in 1..Len(jobs)}

\* get_job_status: with self.active_jobs_lock: entering the block.
StatusLock ==
    /\ cpc = "idle"
    /\ lock = NoThread
    /\ \E id \in JobIds : cjob' = id
    /\ lock' = LockAcquire(lock, Client)
    /\ cpc' = "status_active"
    /\ UNCHANGED <<outsideSched, max_workers, jobs, heap, unfinished, active, completed, failed, should_stop,
                   wpc, wjob, execCount, raiseCount>>

\* if job_id in self.active_jobs: return ...; the block is left.
StatusReadActive ==
    /\ cpc = "status_active"
    /\ lock' = IF lock = Client THEN NoThread ELSE lock
    /\ IF cjob \in DOMAIN active
       THEN cpc' = "idle" /\ cjob' = NoJob
       ELSE cpc' = "status_completed" /\ cjob' = cjob
    /\ UNCHANGED <<outsideSched, max_workers, jobs, heap, unfinished, active, completed, failed, should_stop,
                   wpc, wjob, execCount, raiseCount>>

\* if job_id in self.completed_jobs: return ...
StatusReadCompleted ==
    /\ cpc = "status_completed"
    /\ IF cjob \in DOMAIN completed
       THEN cpc' = "idle" /\ cjob' = NoJob
       ELSE cpc' = "status_failed" /\ cjob' = cjob
    /\ UNCHANGED <<outsideSched, max_workers, jobs, heap, unfinished, active, completed, failed, lock,
                   should_stop, wpc, wjob, execCount, raiseCount>>

\* if job_id in self.failed_jobs: return ...; return {"status": "unknown"}
StatusReadFailed ==
    /\ cpc = "status_failed"
    /\ cpc' = "idle"
    /\ cjob' = NoJob
    /\ UNCHANGED <<outsideSched, max_workers, jobs, heap, unfinished, active, completed, failed, lock,
                   should_stop, wpc, wjob, execCount, raiseCount>>

\* get_job_result is called.
ResultCall ==
    /\ cpc = "idle"
    /\ \E id \in JobIds : cjob' = id
    /\ cpc' = "result_completed"
    /\ UNCHANGED <<outsideSched, max_workers, jobs, heap, unfinished, active, completed, failed, lock,
                   should_stop, wpc, wjob, execCount, raiseCount>>

\* if job_id in self.completed_jobs: return the result
ResultReadCompleted ==
    /\ cpc = "result_completed"
    /\ IF cjob \in DOMAIN completed
       THEN cpc' = "idle" /\ cjob' = NoJob
       ELSE cpc' = "result_failed" /\ cjob' = cjob
    /\ UNCHANGED <<outsideSched, max_workers, jobs, heap, unfinished, active, completed, failed, lock,
                   should_stop, wpc, wjob, execCount, raiseCount>>

\* if job_id in self.failed_jobs: return None; without wait the call returns,
\* with wait it sleeps and looks again.
ResultReadFailed ==
    /\ cpc = "result_failed"
    /\ \E wait \in BOOLEAN :
          IF cjob \in DOMAIN failed \/ ~wait
          THEN cpc' = "idle" /\ cjob' = NoJob
          ELSE cpc' = "result_completed" /\ cjob' = cjob
    /\ UNCHANGED <<outsideSched, max_workers, jobs, heap, unfinished, active, completed, failed, lock,
                   should_stop, wpc, wjob, execCount, raiseCount>>

\* get_stats is called.
StatsCall ==
    /\ cpc = "idle"
    /\ cpc' = "stats"
    /\ UNCHANGED <<outsideSched, max_workers, jobs, heap, unfinished, active, completed, failed, lock,
                   should_stop, wpc, wjob, cjob, execCount, raiseCount>>

\* len(self.active_jobs), len(self.completed_jobs), len(self.failed_jobs)
StatsRead ==
    /\ cpc = "stats"
    /\ cpc' = "idle"
    /\ UNCHANGED <<outsideSched, max_workers, jobs, heap, unfinished, active, completed, failed, lock,
                   should_stop, wpc, wjob, cjob, execCount, raiseCount>>

WorkerStep(w) ==
    \/ WorkerGet(w)
    \/ WorkerLockAdd(w)
    \/ WorkerAddActive(w)
    \/ WorkerRunReturns(w)
    \/ WorkerRunRaises(w)
    \/ WorkerStoreCompleted(w)
    \/ WorkerRequeue(w)
    \/ WorkerStoreFailed(w)
    \/ WorkerLockDel(w)
    \/ WorkerDelActive(w)

QueryStep ==
    \/ StatusLock
    \/ StatusReadActive
    \/ StatusReadCompleted
    \/ StatusReadFailed
    \/ ResultCall
    \/ ResultReadCompleted
    \/ ResultReadFailed
    \/ StatsCall
    \/ StatsRead

\* Jobs of any priority arrive while the workers run; the client may stop
\* the scheduler.
SubmitAny == \E priority \in Priorities : Len(jobs) < MaxJobs /\ Submit(priority)

NextSched == SubmitAny \/ Stop \/ \E w \in WorkerIds : WorkerStep(w)

\* process_repos_with_scheduler submits repository i with priority i.
RepoBatch == <<0, 1>>

SubmitBatch == Len(jobs) < Len(RepoBatch) /\ Submit(RepoBatch[Len(jobs) + 1])

NextQueries == SubmitBatch \/ QueryStep \/ \E w \in WorkerIds : WorkerStep(w)

\* A burst of seven jobs on three priority levels, served by one worker.
Burst == <<2, 2, 0, 2, 2, 1, 1>>

SubmitBurst == Len(jobs) < Len(Burst) /\ Submit(Burst[Len(jobs) + 1])

\* The burst is followed for MaxBurstRuns executions of job functions.
BurstGet(w) == SumSeq(execCount) < MaxBurstRuns /\ WorkerGet(w)

BurstStep(w) ==
    \/ BurstGet(w)
    \/ WorkerLockAdd(w)
    \/ WorkerAddActive(w)
    \/ WorkerRunReturns(w)
    \/ WorkerRunRaises(w)
    \/ WorkerStoreCompleted(w)
    \/ WorkerRequeue(w)
    \/ WorkerStoreFailed(w)
    \/ WorkerLockDel(w)
    \/ WorkerDelActive(w)

NextQueue == SubmitBurst \/ \E w \in WorkerIds : BurstStep(w)

(***************************************************************************)
(* _scheduler_loop: the thread that watches the memory of the machine.      *)
(***************************************************************************)
max_memory_percent == 75
min_free_memory_mb == 1000

\* Readings of vm.percent and of vm.available in MB: below, inside and above
\* the band between the pressure threshold and the recovery threshold.
MemoryPercents == {60, 72, 80}
MemoryAvailable == {800, 1200, 2000}

MemoryReadings == [percent : MemoryPercents, available : MemoryAvailable]

InitMem ==
    /\ mem = [percent |-> 60, available |-> 2000]
    /\ spc = "check"

\* The machine's memory moves, whatever the threads do.
MemoryChanges ==
    /\ \E m \in MemoryReadings : m # mem /\ mem' = m
    /\ UNCHANGED <<spc, outsideMem>>

\* if memory_usage_percent > max_memory_percent or memory_available_mb < min_free
UnderPressure(vm) ==
    vm.percent > max_memory_percent \/ vm.available < min_free_memory_mb

\* One round of the outer loop: vm is read once; under pressure the thread
\* collects garbage and enters the wait, otherwise it sleeps 2 s.
SchedulerCheck ==
    /\ spc = "check"
    /\ ~should_stop
    /\ spc' = IF UnderPressure(mem) THEN "wait_percent" ELSE "check"
    /\ UNCHANGED <<mem, outsideMem>>

\* while not self.should_stop: the loop ends.
SchedulerExit ==
    /\ spc = "check"
    /\ should_stop
    /\ spc' = "stopped"
    /\ UNCHANGED <<mem, outsideMem>>

\* The wait's condition, left operand: psutil.virtual_memory().percent is
\* read; above the cap less 5 the thread sleeps 5 s and asks again.
SchedulerWaitPercent ==
    /\ spc = "wait_percent"
    /\ spc' = IF mem.percent > max_memory_percent - 5
              THEN "wait_percent" ELSE "wait_available"
    /\ UNCHANGED <<mem, outsideMem>>

\* The wait's condition, right operand: psutil.virtual_memory() is read
\* again for .available; below the floor plus 500 MB the thread sleeps 5 s
\* and evaluates the condition anew, otherwise it leaves the wait.
SchedulerWaitAvailable ==
    /\ spc = "wait_available"
    /\ spc' = IF mem.available < min_free_memory_mb + 500
              THEN "wait_percent" ELSE "check"
    /\ UNCHANGED <<mem, outsideMem>>

SchedulerStep ==
    \/ SchedulerCheck
    \/ SchedulerExit
    \/ SchedulerWaitPercent
    \/ SchedulerWaitAvailable

\* Workers, a client that submits a batch and may stop the scheduler, the
\* scheduler thread, and the machine's memory.
NextMemory ==
    \/ SubmitBatch
    \/ Stop
    \/ MemoryChanges
    \/ SchedulerStep
    \/ \E w \in WorkerIds : WorkerStep(w)

(***************************************************************************)
(* Weekly buckets (utils.generate_weekly_ranges, aggregator.calculate_      *)
(* metrics).  Dates are counted in ticks of 1/TicksPerDay day from since.   *)
(***************************************************************************)
Days(n) == n * TicksPerDay

WeekLabel(week_number, current_date) == <<"Week", week_number, current_date>>

\* generate_weekly_ranges: the loop from current_date on.
RECURSIVE WeeklyRangesFrom(_, _, _)
WeeklyRangesFrom(current_date, end_date, week_number) ==
    IF current_date < end_date
    THEN LET plus6 == current_date + Days(6)
             week_end == IF plus6 > end_date THEN end_date ELSE plus6
         IN <<[start |-> current_date, end |-> week_end,
               label |-> WeekLabel(week_number, current_date)]>>
            \o WeeklyRangesFrom(week_end + Days(1), end_date, week_number + 1)
    ELSE <<>>

generate_weekly_ranges(start_date, end_date) ==
    WeeklyRangesFrom(start_date, end_date, 1)

\* Every week's accumulators take the commit.
EveryWeek(weekly_ranges, commit_date) ==
    {weekly_ranges[i].label : i \in 1..Len(weekly_ranges)}

\* for start_date, end_date, label in weekly_ranges: the first range that
\* holds the commit's date gives week_label, and the loop breaks.  The
\* result is the set of week labels the commit is dispatched to.
WeekLabelsFor(weekly_ranges, commit_date) ==
    LET hits == {i \in 1..Len(weekly_ranges) :
                    /\ weekly_ranges[i].start <= commit_date
                    /\ commit_date <= weekly_ranges[i].end}
    IN IF hits = {} THEN {}
       ELSE {weekly_ranges[CHOOSE i \in hits : \A k \in hits : i <= k].label}

RangeEnds == {Days(d) : d \in {6, 7, MaxRangeDays}}

RangesOf(end_date) == generate_weekly_ranges(0, end_date)
LabelsOf(end_date) == {RangesOf(end_date)[i].label : i \in 1..Len(RangesOf(end_date))}

InitWeeks ==
    /\ rangeEnd \in RangeEnds
    /\ overallSeen = <<>>
    /\ weekSeen = [l \in LabelsOf(rangeEnd) |-> <<>>]

\* One round of the traversal loop: the commit goes to the overall
\* accumulators and to those of its week_label, if it has one.
DispatchCommit ==
    /\ Len(overallSeen) < MaxDispatched
    /\ \E commit_date \in 0..rangeEnd :
          LET commit == [id |-> Len(overallSeen) + 1, date |-> commit_date]
              labels == WeekLabelsFor(RangesOf(rangeEnd), commit_date)
          IN /\ overallSeen' = Append(overallSeen, commit)
             /\ weekSeen' = [l \in DOMAIN weekSeen |->
                                IF l \in labels THEN Append(weekSeen[l], commit)
                                ELSE weekSeen[l]]
    /\ UNCHANGED <<rangeEnd, outsideWeeks>>

NextWeeks == DispatchCommit

(***************************************************************************)
(* Splitting the requested range (source/repo_processing.py)                *)
(***************************************************************************)

Min(a, b) == IF a < b THEN a ELSE b
Max(a, b) == IF a > b THEN a ELSE b

\* for i in range(chunks): one (chunk_start, chunk_end) pair per round; the
\* last round ends at to, and the loop breaks once the next
\* chunk_start lies after to.
RECURSIVE SplitFrom(_, _, _, _, _)
SplitFrom(chunk_start, end, chunks, days_per_chunk, i) ==
    LET chunk_end == IF i = chunks - 1 THEN end
                     ELSE Min(chunk_start + Days(days_per_chunk - 1), end)
        next_start == chunk_end + Days(1)
        this == <<[start |-> chunk_start, end |-> chunk_end]>>
    IN IF i + 1 >= chunks \/ next_start > end THEN this
       ELSE this \o SplitFrom(next_start, end, chunks, days_per_chunk, i + 1)

\* split_date_range for two given dates.  (end - start).days is the number
\* of whole days between them.
split_date_range(start, end, chunks) ==
    LET total_days == ((end - start) \div TicksPerDay) + 1
        days_per_chunk == Max(1, total_days \div chunks)
    IN SplitFrom(start, end, chunks, days_per_chunk, 0)

SplitStarts == {0, 1}
SplitEnds(start) == start..(start + Days(MaxSplitDays))

InitSplit ==
    /\ since \in SplitStarts
    /\ to \in SplitEnds(since)
    /\ chunk_count \in ChunkCounts
    /\ date_chunks = <<>>

\* No range is being split.
NoSplit == since = 0 /\ to = 0 /\ chunk_count = 2

\* date_chunks = split_date_range(since, to, chunk_count)
CallSplitDateRange ==
    /\ path = "chunked"
    /\ date_chunks = <<>>
    /\ date_chunks' = split_date_range(since, to, chunk_count)
    /\ UNCHANGED <<since, to, chunk_count, outsideSplit>>

NextSplit == CallSplitDateRange

(***************************************************************************)
(* Choosing how a repository is processed (process_repo_directly)           *)
(***************************************************************************)

sample_size == 100

\* The numbers of commits a requested range may hold.
RepoSizes == {h * 100 + d : h \in 0..MaxHundreds, d \in {0, 1, 99}}

\* A repository with n commits spread over [start, end].
RepoOfSize(n, start, end) == [k \in 1..n |-> start + ((k - 1) * (end - start)) \div n]

\* The commits Repository(since=start, to=end).traverse_commits() yields, as
\* indexes into commit_times.
Traverse(times, start, end) ==
    SelectSeq([k \in 1..Len(times) |-> k],
              LAMBDA k : start <= times[k] /\ times[k] <= end)

\* for _ in repository.traverse_commits(): commit_count += 1, and the loop
\* breaks once commit_count >= sample_size.
RECURSIVE CountUpTo(_, _, _)
CountUpTo(n, commit_count, limit) ==
    IF n = 0 THEN commit_count
    ELSE IF commit_count + 1 >= limit THEN commit_count + 1
    ELSE CountUpTo(n - 1, commit_count + 1, limit)

\* estimate_repo_size: (commit_count, should_split)
estimate_repo_size(times, start, end) ==
    LET commit_count == CountUpTo(Len(Traverse(times, start, end)), 0, sample_size)
    IN [commit_count |-> commit_count, should_split |-> commit_count >= 500]

NotEstimated == [commit_count |-> 0, should_split |-> FALSE]

\* The driver before it wrote anything.
InitRepo ==
    /\ estimated = NotEstimated
    /\ disk = <<>>
    /\ out = <<>>
    /\ total_commits = 0
    /\ chunk_i = 0
    /\ commits_batch = <<>>
    /\ processed_commits = 0
    /\ first_commit = TRUE
    /\ traversed = 0

\* No repository is being processed.
NoRepo == path = "idle" /\ commit_times = <<>> /\ batch_size = 1

\* estimated_commits, should_split = estimate_repo_size(...)
EstimateRepoSize ==
    /\ path = "estimate"
    /\ estimated' = estimate_repo_size(commit_times, since, to)
    /\ path' = "branch"
    /\ UNCHANGED <<commit_times, batch_size, writeVars, splitVars, outsideRepo>>

\* if should_split and estimated_commits > 500: the chunked branch with
\* chunk_count = min(4, max(2, estimated_commits // 200)); else the
\* single-unit branch.
ChoosePath ==
    /\ path = "branch"
    /\ IF estimated.should_split /\ estimated.commit_count > 500
       THEN /\ path' = "chunked"
            /\ chunk_count' = Min(4, Max(2, estimated.commit_count \div 200))
       ELSE /\ path' = "single"
            /\ UNCHANGED chunk_count
    /\ UNCHANGED <<since, to, date_chunks, repoVars, writeVars, outsideRepo>>

NextEstimate == EstimateRepoSize \/ ChoosePath

(***************************************************************************)
(* The chunked branch: process_repo_chunk on every sub-range, each chunk's  *)
(* commit file appended to the output file.  The text of the "commits"      *)
(* array is a sequence of tokens: the ',\n' separators and the JSON lines  *)
(* of the commits.                                                          *)
(***************************************************************************)

Separator == <<",", 0>>
CommitLine(k) == <<"commit", k>>

\* The repositories with at most MaxRepoCommits commits in [start, end].
SmallRepos(start, end) ==
    {t \in UNION {[1..n -> start..end] : n \in 0..MaxRepoCommits} :
        \A k \in 1..(Len(t) - 1) : t[k] <= t[k + 1]}

\* with open(output_commit_file, 'a') as f: one line per commit of the
\* chunk, written once the batch is full or the last commit was reached.
\* Nothing is written, and no file is made, for a chunk without commits.
WriteCommitFile(d, chunk_id, commits) ==
    IF commits = <<>> THEN d ELSE DictPut(d, chunk_id, commits)

\* finally: shutil.rmtree(temp_dir): the chunk's directory goes, and the
\* commit file that was written into it.
RmTree(d, chunk_id) == [x \in (DOMAIN d) \ {chunk_id} |-> d[x]]

\* process_repo_chunk: the disk it leaves and the commit_count of its summary.
process_repo_chunk(d, chunk_id, chunk_start, chunk_end) ==
    LET commits == Traverse(commit_times, chunk_start, chunk_end)
    IN [disk |-> RmTree(WriteCommitFile(d, chunk_id, commits), chunk_id),
        commit_count |-> Len(commits)]

\* for line in chunk_file: ',\n' before every line but the first.
RECURSIVE AppendLines(_, _)
AppendLines(lines, first_line) ==
    IF lines = <<>> THEN <<>>
    ELSE (IF first_line THEN <<>> ELSE <<Separator>>)
         \o <<CommitLine(Head(lines))>> \o AppendLines(Tail(lines), FALSE)

\* One round of for i, (chunk_start, chunk_end) in enumerate(date_chunks).
ProcessChunk ==
    /\ path = "chunked"
    /\ chunk_i < Len(date_chunks)
    /\ LET i == chunk_i
           chunk_result == process_repo_chunk(disk, i, date_chunks[i + 1].start,
                                              date_chunks[i + 1].end)
           exists == i \in DOMAIN chunk_result.disk
           lines == IF exists THEN chunk_result.disk[i] ELSE <<>>
           lead == IF exists /\ (i > 0 \/ total_commits > 0)
                   THEN <<Separator>> ELSE <<>>
       IN /\ disk' = chunk_result.disk
          /\ out' = out \o lead \o AppendLines(lines, TRUE)
          /\ total_commits' = Max(total_commits + Len(lines), chunk_result.commit_count)
          /\ chunk_i' = i + 1
    /\ UNCHANGED <<path, commits_batch, processed_commits, first_commit, traversed,
                   repoVars, splitVars, outsideRepo>>

\* After the last chunk: f.write('\n  ],\n') closes the "commits" array.
CloseChunked ==
    /\ path = "chunked"
    /\ date_chunks # <<>>
    /\ chunk_i = Len(date_chunks)
    /\ path' = "done"
    /\ UNCHANGED <<repoVars, writeVars, splitVars, outsideRepo>>

NextChunked == CallSplitDateRange \/ ProcessChunk \/ CloseChunked

(***************************************************************************)
(* The single-unit branch: the commits are written in batches.              *)
(***************************************************************************)

\* The commits of the requested range.
RangeCommits == Traverse(commit_times, since, to)

\* Every element gets a separator in front.
AlwaysSeparator(first, i) == TRUE

\* if not first_commit or i > 0: f.write(',\n')
NeedsSeparator(first, i) == ~first \/ i > 0

\* for i, c_info in enumerate(commits_batch): the text one flush writes.
RECURSIVE WriteBatch(_, _, _)
WriteBatch(batch, first, i) ==
    IF i >= Len(batch) THEN <<>>
    ELSE (IF NeedsSeparator(first, i) THEN <<Separator>> ELSE <<>>)
         \o <<CommitLine(batch[i + 1])>> \o WriteBatch(batch, FALSE, i + 1)

\* commit_count == 0: the array is closed at once and the function returns.
SingleEmpty ==
    /\ path = "single"
    /\ Len(RangeCommits) = 0
    /\ path' = "done"
    /\ UNCHANGED <<repoVars, writeVars, splitVars, outsideRepo>>

\* One round of the loop over the commits: the commit joins the batch, and
\* the batch is written when it is full or the commit was the last one.
SingleCommit ==
    /\ path = "single"
    /\ traversed < Len(RangeCommits)
    /\ LET batch == Append(commits_batch, RangeCommits[traversed + 1])
           flush == \/ Len(batch) >= batch_size
                    \/ processed_commits + 1 = Len(RangeCommits)
       IN /\ total_commits' = total_commits + 1
          /\ processed_commits' = processed_commits + 1
          /\ traversed' = traversed + 1
          /\ IF flush
             THEN /\ out' = out \o WriteBatch(batch, first_commit, 0)
                  /\ first_commit' = FALSE
                  /\ commits_batch' = <<>>
             ELSE /\ commits_batch' = batch
                  /\ UNCHANGED <<out, first_commit>>
    /\ UNCHANGED <<path, disk, chunk_i, repoVars, splitVars, outsideRepo>>

\* extract_commit_info raises: the error is logged and the loop goes on
\* with the next commit.
SingleCommitRaises ==
    /\ path = "single"
    /\ traversed < Len(RangeCommits)
    /\ traversed' = traversed + 1
    /\ UNCHANGED <<path, disk, out, total_commits, chunk_i, commits_batch,
                   processed_commits, first_commit, repoVars, splitVars, outsideRepo>>

\* After the loop: f.write('\n  ],\n') closes the "commits" array.
CloseSingle ==
    /\ path = "single"
    /\ Len(RangeCommits) > 0
    /\ traversed = Len(RangeCommits)
    /\ path' = "done"
    /\ UNCHANGED <<repoVars, writeVars, splitVars, outsideRepo>>

BatchSizes == 1..MaxBatchSize

NextOutput ==
    \/ SingleEmpty
    \/ SingleCommit
    \/ SingleCommitRaises
    \/ CloseSingle
    \/ CallSplitDateRange
    \/ ProcessChunk
    \/ CloseChunked

(***************************************************************************)
(* process_repos_with_scheduler on the shared scheduler (get_scheduler)     *)
(***************************************************************************)

\* The names of the repositories (the last part of repo_url).
RepoNames == {1, 2}

\* job_id=f"repo_{repo_name}"
RepoJobId(repo_name) == repo_name

\* The repos of one call: repositories of different names.  Every call is
\* made for another project, so that no output of an earlier call matches
\* the call's output pattern and no repository is skipped.
RepoLists ==
    {rs \in UNION {[1..n -> RepoNames] : n \in 1..MaxCallRepos} :
        \A a, b \in 1..Len(rs) : a # b => rs[a] # rs[b]}

InitCall ==
    /\ call_no = 0
    /\ call_pc = "idle"
    /\ repos = <<>>
    /\ job_ids = <<>>
    /\ call_jobs = <<>>
    /\ results = <<>>

\* process_repos_with_scheduler is called: scheduler = get_scheduler(...),
\* the one global instance with the tables earlier calls left.
BeginCall ==
    /\ call_pc = "idle"
    /\ call_no < MaxCalls
    /\ call_no' = call_no + 1
    /\ \E rs \in RepoLists : repos' = rs
    /\ call_pc' = "submit"
    /\ job_ids' = <<>>
    /\ call_jobs' = <<>>
    /\ results' = <<>>
    /\ UNCHANGED <<schedVars, outsideCall>>

\* One round of for i, repo in enumerate(repos): scheduler.submit(...,
\* priority=i, job_id=f"repo_{repo_name}"); a TypeError of the put ends the
\* call.  After the last round the call goes on to wait.
SubmitRepo ==
    /\ call_pc = "submit"
    /\ Len(job_ids) < Len(repos)
    /\ LET i == Len(job_ids)
           job_id == RepoJobId(repos[i + 1])
           j == Len(jobs) + 1
           r == QueuePut(heap, unfinished, Entry(-i, j))
       IN /\ jobs' = Append(jobs, [NewJob(j, i) EXCEPT !.id = job_id])
          /\ heap' = r.heap
          /\ unfinished' = r.unfinished
          /\ job_ids' = Append(job_ids, job_id)
          /\ call_jobs' = Append(call_jobs, j)
          /\ call_pc' = IF r.err THEN "idle"
                        ELSE IF i + 1 = Len(repos) THEN "wait" ELSE "submit"
    /\ execCount' = Append(execCount, 0)
    /\ raiseCount' = Append(raiseCount, 0)
    /\ UNCHANGED <<max_workers, active, completed, failed, lock, should_stop, wpc, wjob,
                   cpc, cjob, call_no, repos, results, outsideCall>>

\* get_job_result(job_id, wait=True) for the next of job_ids: it returns
\* once job_id is in completed_jobs (the stored Job's result) or in
\* failed_jobs (None), and sleeps until then.  The entry of results says
\* which Job's result was returned.
GetJobResult ==
    /\ call_pc = "wait"
    /\ Len(results) < Len(job_ids)
    /\ LET job_id == job_ids[Len(results) + 1]
       IN /\ job_id \in DOMAIN completed \/ job_id \in DOMAIN failed
          /\ results' = Append(results, IF job_id \in DOMAIN completed
                                         THEN completed[job_id] ELSE NoJob)
    /\ UNCHANGED <<schedVars, call_no, call_pc, repos, job_ids, call_jobs, outsideCall>>

\* return results
ReturnResults ==
    /\ call_pc = "wait"
    /\ Len(results) = Len(job_ids)
    /\ call_pc' = "idle"
    /\ UNCHANGED <<schedVars, call_no, repos, job_ids, call_jobs, results, outsideCall>>

NextRepos ==
    \/ BeginCall
    \/ SubmitRepo
    \/ GetJobResult
    \/ ReturnResults
    \/ \E w \in WorkerIds : WorkerStep(w)

(***************************************************************************)
(* Python floats that arise from the weights of DiffDeltaMetric are kept   *)
(* as binary64 values: a significand of 53 bits and an exponent, every sum, *)
(* product and quotient rounded to the nearest value, ties to even.  A     *)
(* natural number is a sequence of limbs of 15 bits, the lowest first.     *)
(***************************************************************************)

mant_dig == 53
guard_bits == 8
limb_bits == 15

RECURSIVE Pow2(_)
Pow2(k) == IF k = 0 THEN 1 ELSE 2 * Pow2(k - 1)

LimbBase == Pow2(limb_bits)

LimbAt(a, i) == IF i \in 1..Len(a) THEN a[i] ELSE 0

\* The number without its leading zero limbs.
RECURSIVE BigNorm(_)
BigNorm(a) ==
    IF a = <<>> \/ a[Len(a)] # 0 THEN a ELSE BigNorm(SubSeq(a, 1, Len(a) - 1))

RECURSIVE BigAddFrom(_, _, _, _)
BigAddFrom(a, b, i, carry) ==
    IF i > Len(a) /\ i > Len(b) THEN (IF carry = 0 THEN <<>> ELSE <<carry>>)
    ELSE <<(LimbAt(a, i) + LimbAt(b, i) + carry) % LimbBase>>
         \o BigAddFrom(a, b, i + 1, (LimbAt(a, i) + LimbAt(b, i) + carry) \div LimbBase)

BigAdd(a, b) == BigAddFrom(a, b, 1, 0)

RECURSIVE BigMulFrom(_, _, _, _)
BigMulFrom(a, k, i, carry) ==
    IF i > Len(a) THEN (IF carry = 0 THEN <<>> ELSE <<carry>>)
    ELSE <<(a[i] * k + carry) % LimbBase>>
         \o BigMulFrom(a, k, i + 1, (a[i] * k + carry) \div LimbBase)

\* a * k, for 0 <= k < LimbBase
BigMulInt(a, k) == IF k = 0 THEN <<>> ELSE BigMulFrom(a, k, 1, 0)

\* What is left of the limbs of a above the i-th when a is divided by d.
RECURSIVE BigRemAbove(_, _, _)
BigRemAbove(a, d, i) ==
    IF i >= Len(a) THEN 0 ELSE (BigRemAbove(a, d, i + 1) * LimbBase + a[i + 1]) % d

\* a divided by d, for 0 < d < LimbBase: the quotient and the remainder
BigQuot(a, d) ==
    BigNorm([i \in 1..Len(a) |-> (BigRemAbove(a, d, i) * LimbBase + a[i]) \div d])

BigRem(a, d) == BigRemAbove(a, d, 0)

RECURSIVE BigFromInt(_)
BigFromInt(n) == IF n = 0 THEN <<>> ELSE <<n % LimbBase>> \o BigFromInt(n \div LimbBase)

RECURSIVE BigToInt(_)
BigToInt(a) == IF a = <<>> THEN 0 ELSE a[1] + LimbBase * BigToInt(Tail(a))

\* The number written in hexadecimal digits, the highest first.
RECURSIVE BigFromHex(_)
BigFromHex(digits) ==
    IF digits = <<>> THEN <<>>
    ELSE BigAdd(BigMulInt(BigFromHex(SubSeq(digits, 1, Len(digits) - 1)), 16),
                BigFromInt(digits[Len(digits)]))

\* The limbs of a from the i-th on.
BigFrom(a, i) == SubSeq(a, i, Len(a))

BigIsOdd(a) == a # <<>> /\ a[1] % 2 = 1

BitLength(a) ==
    IF a = <<>> THEN 0
    ELSE (Len(a) - 1) * limb_bits
         + (CHOOSE n \in 1..limb_bits : Pow2(n - 1) <= a[Len(a)] /\ a[Len(a)] < Pow2(n))

ShiftLeft(a, k) ==
    IF a = <<>> THEN <<>>
    ELSE [i \in 1..(k \div limb_bits) |-> 0] \o BigMulInt(a, Pow2(k % limb_bits))

\* a shifted right by k bits
ShiftRight(a, k) == BigQuot(BigFrom(a, (k \div limb_bits) + 1), Pow2(k % limb_bits))

\* Whether the shift cuts off a one.
ShiftLoses(a, k) ==
    \/ BigRem(BigFrom(a, (k \div limb_bits) + 1), Pow2(k % limb_bits)) # 0
    \/ \E i \in 1..Min(k \div limb_bits, Len(a)) : a[i] # 0

\* The significand r of too many bits halved.
FloatFit(r, e) ==
    IF BitLength(r) > mant_dig THEN [m |-> BigQuot(r, 2), e |-> e + 1] ELSE [m |-> r, e |-> e]

\* The kept bits go up by one when the bits cut off are more than half of
\* the last kept bit, or just half of it and the last kept bit is odd.
FloatCut(kept, half, more, e) ==
    FloatFit(IF half /\ (more \/ BigIsOdd(kept)) THEN BigAdd(kept, <<1>>) ELSE kept, e)

\* m * 2^e with its k lowest bits cut off and rounded.
FloatRoundAt(m, e, k) ==
    IF m = <<>> THEN [m |-> <<>>, e |-> 0]
    ELSE IF k <= 0 THEN [m |-> ShiftLeft(m, -k), e |-> e + k]
    ELSE FloatCut(ShiftRight(m, k), BigIsOdd(ShiftRight(m, k - 1)), ShiftLoses(m, k - 1),
                  e + k)

\* The float nearest to m * 2^e, ties to the even significand.
FloatRound(m, e) == FloatRoundAt(m, e, BitLength(m) - mant_dig)

FloatZero == FloatRound(<<>>, 0)

\* float(n) of an int
FloatOfInt(n) == FloatRound(BigFromInt(n), 0)

\* x + y
FloatAdd(x, y) ==
    IF x.m = <<>> THEN y
    ELSE IF y.m = <<>> THEN x
    ELSE FloatRound(BigAdd(ShiftLeft(x.m, x.e - Min(x.e, y.e)),
                           ShiftLeft(y.m, y.e - Min(x.e, y.e))), Min(x.e, y.e))

\* n * x of an int n and a float x
FloatMulInt(n, x) == FloatRound(BigMulInt(x.m, n), x.e)

\* x / d of a float x and an int d > 0: the quotient of the significand
\* with guard_bits more bits, and one lowest bit that says whether a
\* remainder was left, rounded.
FloatDivInt(x, d) ==
    FloatRound(BigAdd(BigMulInt(BigQuot(ShiftLeft(x.m, guard_bits), d), 2),
                      IF BigRem(ShiftLeft(x.m, guard_bits), d) = 0 THEN <<>> ELSE <<1>>),
               x.e - guard_bits - 1)

\* int(x) of a float x >= 0
FloatToInt(x) ==
    IF x.e >= 0 THEN BigToInt(ShiftLeft(x.m, x.e)) ELSE BigToInt(ShiftRight(x.m, -x.e))

\* The sum of the floats of a sequence, as sum() adds them up.
RECURSIVE FloatSum(_)
FloatSum(xs) ==
    IF xs = <<>> THEN FloatZero
    ELSE FloatAdd(FloatSum(SubSeq(xs, 1, Len(xs) - 1)), xs[Len(xs)])

\* x + w + ... + w, n times
RECURSIVE FloatAddTimes(_, _, _)
FloatAddTimes(x, w, n) == IF n = 0 THEN x ELSE FloatAdd(FloatAddTimes(x, w, n - 1), w)

\* self.weights, and the 0.8 of the updates
weight_add == FloatOfInt(1)
weight_update == FloatRound(BigFromInt(3), -2)
weight_delete == FloatRound(BigFromInt(1), -2)
weight_move == FloatRound(BigFromHex(<<1, 9, 9, 9, 9, 9, 9, 9, 9, 9, 9, 9, 9, 10>>), -56)
update_share == FloatRound(BigFromHex(<<1, 9, 9, 9, 9, 9, 9, 9, 9, 9, 9, 9, 9, 10>>), -53)

(***************************************************************************)
(* DiffDeltaMetric (timings/diff_delta.py).  A modified file carries its   *)
(* filename and the contents of its added and deleted lines.                *)
(***************************************************************************)

\* line.strip(), on the lines of the model
LineStrip(line) == CASE line = "  f()" -> "f()" [] line = "  " -> "" [] OTHER -> line

ShortLines == {"}"}
CommentLines == {"# c"}
ImportLines == {"import os"}

is_meaningful_line(line) ==
    /\ LineStrip(line) # ""
    /\ LineStrip(line) \notin ShortLines
    /\ line \notin CommentLines
    /\ line \notin ImportLines

should_skip_file(filename) == filename \in {"yarn.lock", "dist/a.js"}

detect_moved_lines(added_lines, deleted_lines) ==
    LET deleted_content ==
            {LineStrip(deleted_lines[i]) : i \in 1..Len(deleted_lines)} \ {""}
    IN {added_lines[i] : i \in {j \in 1..Len(added_lines) :
            LineStrip(added_lines[j]) # "" /\ LineStrip(added_lines[j]) \in deleted_content}}

CountMeaningful(lines, moved_lines) ==
    Cardinality({i \in 1..Len(lines) :
        lines[i] \notin moved_lines /\ is_meaningful_line(lines[i])})

\* meaningful_updates = int(updates * 0.8), for updates > 0
MeaningfulUpdates(updates) ==
    IF updates > 0 THEN FloatToInt(FloatMulInt(updates, update_share)) ELSE 0

\* What the file adds to the line counters of the week.
DiffDeltaLines(mf, moved_lines) ==
    [lines_added |-> CountMeaningful(mf.added, moved_lines),
     lines_deleted |-> CountMeaningful(mf.deleted, moved_lines),
     lines_updated |-> MeaningfulUpdates(Min(Len(mf.added) - Cardinality(moved_lines),
                                             Len(mf.deleted) - Cardinality(moved_lines))),
     lines_moved |-> Cardinality(moved_lines)]

\* diff_delta: weights['add'] for every meaningful addition, then
\* weights['delete'] for every meaningful deletion, then the updates and
\* the moves (where there are none, nothing is added: 0.0 here).
DiffDeltaOf(counts) ==
    FloatAdd(FloatAdd(FloatAddTimes(FloatAddTimes(FloatZero, weight_add, counts.lines_added),
                                    weight_delete, counts.lines_deleted),
                      FloatMulInt(counts.lines_updated, weight_update)),
             FloatMulInt(counts.lines_moved, weight_move))

\* process_modified_file: the diff delta of the file and what it adds to
\* the line counters of the week.  (file_history is written and never read.)
DiffDeltaProcessFile(mf) ==
    IF should_skip_file(mf.filename)
    THEN [diff_delta |-> FloatZero, lines |-> [lines_added |-> 0, lines_deleted |-> 0,
                                               lines_updated |-> 0, lines_moved |-> 0]]
    ELSE [diff_delta |-> DiffDeltaOf(DiffDeltaLines(mf, detect_moved_lines(mf.added, mf.deleted))),
          lines |-> DiffDeltaLines(mf, detect_moved_lines(mf.added, mf.deleted))]

\* The defaults of developer_stats.
NewWeekVelocity ==
    [diff_delta |-> FloatZero, lines_added |-> 0, lines_updated |-> 0, lines_deleted |-> 0,
     lines_moved |-> 0, commits |-> 0, files_changed |-> {}, active_days |-> {}]

NewDeveloperStats ==
    [weekly_velocity |-> EmptyDict, total_diff_delta |-> FloatZero, total_commits |-> 0]

\* commit.author.email.strip().lower()
DeveloperEmail(email) == IF email = "Alice" THEN "alice" ELSE email

\* The end of process_commit: the counters of the developer and of the week
\* of the commit, with what the files of the commit add.
DiffDeltaCount(stats, commit, per_file, commit_diff_delta) ==
    LET developer_email == DeveloperEmail(commit.author)
        week_key == WeekKey(commit.ts)
        dev == DictGet(stats, developer_email, NewDeveloperStats)
        week == DictGet(dev.weekly_velocity, week_key, NewWeekVelocity)
        Total(field) == SumSeq([i \in 1..Len(per_file) |-> per_file[i].lines[field]])
    IN DictPut(stats, developer_email,
               [weekly_velocity |->
                    DictPut(dev.weekly_velocity, week_key,
                            [diff_delta |-> FloatAdd(week.diff_delta, commit_diff_delta),
                             lines_added |-> week.lines_added + Total("lines_added"),
                             lines_updated |-> week.lines_updated + Total("lines_updated"),
                             lines_deleted |-> week.lines_deleted + Total("lines_deleted"),
                             lines_moved |-> week.lines_moved + Total("lines_moved"),
                             commits |-> week.commits + 1,
                             files_changed |-> week.files_changed
                                 \cup {commit.files[i].filename : i \in 1..Len(commit.files)},
                             active_days |-> week.active_days \cup {DayKey(commit.ts)}]),
                total_diff_delta |-> FloatAdd(dev.total_diff_delta, commit_diff_delta),
                total_commits |-> dev.total_commits + 1])

\* commit_diff_delta: the sum of what process_modified_file returns
DiffDeltaSum(stats, commit, per_file) ==
    DiffDeltaCount(stats, commit, per_file,
                   FloatSum([i \in 1..Len(per_file) |-> per_file[i].diff_delta]))

\* process_commit
DiffDeltaProcess(stats, commit) ==
    DiffDeltaSum(stats, commit,
                 [i \in 1..Len(commit.files) |-> DiffDeltaProcessFile(commit.files[i])])

\* get_metrics
DiffDeltaGet(stats) ==
    [developer \in DOMAIN stats |->
        [total_diff_delta |-> stats[developer].total_diff_delta,
         total_commits |-> stats[developer].total_commits,
         weekly_velocity |->
            [week \in DOMAIN stats[developer].weekly_velocity |->
                LET week_stats == stats[developer].weekly_velocity[week]
                IN [diff_delta |-> week_stats.diff_delta,
                    lines_added |-> week_stats.lines_added,
                    lines_updated |-> week_stats.lines_updated,
                    lines_deleted |-> week_stats.lines_deleted,
                    lines_moved |-> week_stats.lines_moved,
                    commits |-> week_stats.commits,
                    files_changed |-> Cardinality(week_stats.files_changed),
                    active_days |-> Cardinality(week_stats.active_days),
                    velocity_per_day |->
                        FloatDivInt(week_stats.diff_delta,
                                    Max(1, Cardinality(week_stats.active_days)))]]]]

\* The defaults of merge_metrics.
NewMergedWeek ==
    [diff_delta |-> FloatZero, lines_added |-> 0, lines_updated |-> 0, lines_deleted |-> 0,
     lines_moved |-> 0, commits |-> 0, files_changed |-> 0, active_days |-> 0,
     velocity_per_day |-> FloatZero]

NewMergedDeveloper ==
    [total_diff_delta |-> FloatZero, total_commits |-> 0, weekly_velocity |-> EmptyDict]

\* merge_metrics, one round of for metrics in metrics_list
DiffDeltaMergeOne(merged, metrics) ==
    [developer \in DOMAIN merged \cup DOMAIN metrics |->
        IF developer \notin DOMAIN metrics THEN merged[developer]
        ELSE LET old == DictGet(merged, developer, NewMergedDeveloper)
                 dev_stats == metrics[developer]
             IN [total_diff_delta |->
                     FloatAdd(old.total_diff_delta, dev_stats.total_diff_delta),
                 total_commits |-> old.total_commits + dev_stats.total_commits,
                 weekly_velocity |->
                     [week \in DOMAIN old.weekly_velocity \cup DOMAIN dev_stats.weekly_velocity |->
                         IF week \notin DOMAIN dev_stats.weekly_velocity
                         THEN old.weekly_velocity[week]
                         ELSE LET a == DictGet(old.weekly_velocity, week, NewMergedWeek)
                                  b == dev_stats.weekly_velocity[week]
                              IN [diff_delta |-> FloatAdd(a.diff_delta, b.diff_delta),
                                  lines_added |-> a.lines_added + b.lines_added,
                                  lines_updated |-> a.lines_updated + b.lines_updated,
                                  lines_deleted |-> a.lines_deleted + b.lines_deleted,
                                  lines_moved |-> a.lines_moved + b.lines_moved,
                                  commits |-> a.commits + b.commits,
                                  files_changed |-> a.files_changed + b.files_changed,
                                  active_days |-> a.active_days + b.active_days,
                                  velocity_per_day |-> a.velocity_per_day]]]]

RECURSIVE DiffDeltaMergeAll(_)
DiffDeltaMergeAll(metrics_list) ==
    IF metrics_list = <<>> THEN EmptyDict
    ELSE DiffDeltaMergeOne(DiffDeltaMergeAll(SubSeq(metrics_list, 1, Len(metrics_list) - 1)),
                           metrics_list[Len(metrics_list)])

\* merge_metrics: the sums, then velocity_per_day of every week again
DiffDeltaMerge(metrics_list) ==
    LET merged == DiffDeltaMergeAll(metrics_list)
        Again(week_stats) ==
            [week_stats EXCEPT !.velocity_per_day =
                FloatDivInt(week_stats.diff_delta, Max(1, week_stats.active_days))]
    IN [developer \in DOMAIN merged |->
           [merged[developer] EXCEPT !.weekly_velocity =
               [week \in DOMAIN @ |-> Again(@[week])]]]

\* The commits fed to the accumulator: their authors, times and files.
DeltaFile(filename, added_lines, deleted_lines) ==
    [filename |-> filename, added |-> added_lines, deleted |-> deleted_lines]

DeltaFiles ==
    { <<DeltaFile("a.py", <<"f()">>, <<"  f()">>)>>,
      <<DeltaFile("a.py", <<"f()", "g()", "h()">>, <<"f()", "g()", "h()">>)>>,
      <<DeltaFile("a.py", <<"p()", "q()", "# c">>, <<"}", "f()", "import os">>),
        DeltaFile("yarn.lock", <<"p()">>, <<>>)>> }

DeltaAuthors == {"Alice", "bob"}
DeltaTimes == {StartTime, StartTime + MinutesPerDay, StartTime + MinutesPerWeek}

InitDelta ==
    /\ developer_stats = EmptyDict
    /\ velocity_metrics = <<>>
    /\ merged_velocity = EmptyDict
    /\ delta_commits = 0

\* calculate_metrics hands a commit to the accumulator.
DeltaProcessCommit ==
    /\ delta_commits < MaxDeltaCommits
    /\ \E author \in DeltaAuthors, ts \in DeltaTimes, files \in DeltaFiles :
          developer_stats' =
              DiffDeltaProcess(developer_stats,
                               [author |-> author, ts |-> ts, files |-> files])
    /\ delta_commits' = delta_commits + 1
    /\ UNCHANGED <<velocity_metrics, merged_velocity, outsideDelta>>

\* A chunk ends: its result is kept for the merge and the next chunk
\* begins with a new DiffDeltaMetric().
DeltaGetMetrics ==
    /\ Len(velocity_metrics) < MaxDeltaChunks
    /\ velocity_metrics' = Append(velocity_metrics, DiffDeltaGet(developer_stats))
    /\ developer_stats' = EmptyDict
    /\ UNCHANGED <<merged_velocity, delta_commits, outsideDelta>>

\* merge_metrics_results: DiffDeltaMetric.merge_metrics of the chunk results
DeltaMergeMetrics ==
    /\ velocity_metrics # <<>>
    /\ merged_velocity' = DiffDeltaMerge(velocity_metrics)
    /\ UNCHANGED <<developer_stats, velocity_metrics, delta_commits, outsideDelta>>

NextDelta ==
    \/ DeltaProcessCommit
    \/ DeltaGetMetrics
    \/ DeltaMergeMetrics

(***************************************************************************)
(* MeaningfulCodeMetric (quality/meaningful_code.py): the commits it takes  *)
(* for unrealistic.  A modified file carries its added_lines and            *)
(* deleted_lines; times are minutes.                                        *)
(***************************************************************************)

large_commit_changes == 5000
rapid_commit_changes == 1000
rapid_commit_minutes == 10

\* sum((mf.added_lines or 0) + (mf.deleted_lines or 0) for mf in modified_files)
TotalChanges(modified_files) ==
    SumSeq([i \in 1..Len(modified_files) |->
               modified_files[i].added_lines + modified_files[i].deleted_lines])

\* What _is_unrealistic_commit returns.
UnrealisticType(times, commit) ==
    IF TotalChanges(commit.files) > large_commit_changes THEN "large_commit"
    ELSE IF /\ commit.author \in DOMAIN times
            /\ TotalChanges(commit.files) > rapid_commit_changes
            /\ commit.ts - times[commit.author] < rapid_commit_minutes
         THEN "rapid_large_commit"
         ELSE None

\* What _is_unrealistic_commit makes of unrealistic_commits.
UnrealisticCount(counts, times, commit) ==
    [skipped_lines |-> counts.skipped_lines + TotalChanges(commit.files),
     large_commits |-> counts.large_commits
         + (IF UnrealisticType(times, commit) = "large_commit" THEN 1 ELSE 0),
     rapid_large_commits |-> counts.rapid_large_commits
         + (IF UnrealisticType(times, commit) = "rapid_large_commit" THEN 1 ELSE 0),
     total |-> counts.total + (IF UnrealisticType(times, commit) = None THEN 0 ELSE 1)]

\* The commits handed to the metric: authors, minutes since the commit
\* before, and files.
CodeFile(added, deleted) == [added_lines |-> added, deleted_lines |-> deleted]

CodeFiles ==
    { <<CodeFile(300, 200)>>,
      <<CodeFile(1000, 0)>>,
      <<CodeFile(1500, 500)>>,
      <<CodeFile(4000, 500), CodeFile(0, 500)>>,
      <<CodeFile(4000, 1000), CodeFile(0, 1000)>> }

CodeAuthors == {"alice", "bob"}
CodeGaps == {5, 10}

InitCode ==
    /\ unrealistic_commits =
           [large_commits |-> 0, rapid_large_commits |-> 0, total |-> 0, skipped_lines |-> 0]
    /\ author_times = EmptyDict
    /\ counted_commits = 0
    /\ code_log = <<>>

\* process_commit: _is_unrealistic_commit, and for a commit that is not
\* unrealistic the line statistics of its files (base_metric.process_commit,
\* process_meaningful_metrics), of which the count of the commits is kept.
CodeProcessCommit ==
    /\ Len(code_log) < MaxCodeCommits
    /\ \E author \in CodeAuthors, gap \in CodeGaps, modified_files \in CodeFiles :
          LET commit == [author |-> author, ts |-> LastTime(code_log) + gap,
                         files |-> modified_files]
              type == UnrealisticType(author_times, commit)
          IN /\ unrealistic_commits' = UnrealisticCount(unrealistic_commits, author_times, commit)
             /\ author_times' = IF type = None THEN DictPut(author_times, author, commit.ts)
                                ELSE author_times
             /\ counted_commits' = counted_commits + (IF type = None THEN 1 ELSE 0)
             /\ code_log' = Append(code_log, [author |-> author, ts |-> commit.ts,
                                              total_changes |-> TotalChanges(modified_files),
                                              type |-> type])
    /\ UNCHANGED outsideCode

NextCode ==
    \/ CodeProcessCommit

(***************************************************************************)
(* EnhancedCodeChurn (quality/code_churn.py).  A diff is the sequence of    *)
(* its sections: the old_start and new_start of the "@@" header and the     *)
(* first characters of the lines that follow it.  (commit_data, file_data   *)
(* and weekly_data keep the same numbers per commit and per week.)          *)
(***************************************************************************)

Section(old_start, new_start, lines) ==
    [old_start |-> old_start, new_start |-> new_start, lines |-> lines]

\* for line in lines, from the k-th line on: acc holds the line history of
\* the file, old_line, new_line, contribution and churn.
RECURSIVE ChurnLines(_, _, _, _)
ChurnLines(acc, author, lines, k) ==
    IF k > Len(lines) THEN acc
    ELSE ChurnLines(
            CASE lines[k] = "-" ->
                   [acc EXCEPT !.churn = @ + (IF /\ acc.old_line \in DOMAIN acc.history
                                                 /\ acc.history[acc.old_line] = author
                                              THEN 1 ELSE 0),
                               !.history = DictDel(@, acc.old_line),
                               !.old_line = @ + 1]
              [] lines[k] = "+" ->
                   [acc EXCEPT !.history = DictPut(@, acc.new_line, author),
                               !.contribution = @ + 1,
                               !.new_line = @ + 1]
              [] OTHER ->
                   [acc EXCEPT !.old_line = @ + 1, !.new_line = @ + 1],
            author, lines, k + 1)

\* for section in diff_sections, from the k-th section on
RECURSIVE ChurnSections(_, _, _, _)
ChurnSections(acc, author, diff, k) ==
    IF k > Len(diff) THEN acc
    ELSE ChurnSections(
            ChurnLines([acc EXCEPT !.old_line = diff[k].old_start,
                                   !.new_line = diff[k].new_start],
                       author, diff[k].lines, 1),
            author, diff, k + 1)

\* _process_true_churn: the line history of the file afterwards, and the
\* contribution and churn of the diff
ProcessTrueChurn(history, author, diff) ==
    ChurnSections([history |-> history, old_line |-> 0, new_line |-> 0,
                   contribution |-> 0, churn |-> 0], author, diff, 1)

NoChurn == [contribution |-> 0, churn |-> 0]

AddChurn(counts, res) ==
    [contribution |-> counts.contribution + res.contribution,
     churn |-> counts.churn + res.churn]

\* added_lines and deleted_lines of a modified file, as PyDriller counts them
DiffCount(diff, ch) ==
    SumSeq([k \in 1..Len(diff) |->
               Cardinality({i \in 1..Len(diff[k].lines) : diff[k].lines[i] = ch})])

\* The modified files of the commits handed to the metric.
ChurnDiffs ==
    { <<>>,
      <<Section(0, 1, <<"+">>)>>,
      <<Section(1, 1, <<"-", "+">>)>>,
      <<Section(1, 1, <<" ", "+">>)>>,
      <<Section(1, 1, <<"-">>), Section(3, 2, <<"+", "+">>)>> }

ChurnFiles == {"a.py", "b.py"}
ChurnAuthors == {"alice", "bob"}

InitChurn ==
    /\ line_history = EmptyDict
    /\ true_churn_metrics =
           [total_contribution |-> 0, total_churn |-> 0,
            per_author |-> EmptyDict, per_file |-> EmptyDict]
    /\ lines_by_file = EmptyDict
    /\ churn_commits = 0

\* process_commit of a commit with one modified file: process_modified_file
\* and, for a file with a diff, _process_true_churn.
ChurnProcessCommit ==
    /\ churn_commits < MaxChurnCommits
    /\ churn_commits' = churn_commits + 1
    /\ \E author \in ChurnAuthors, filename \in ChurnFiles, diff \in ChurnDiffs :
          LET old == DictGet(lines_by_file, filename, [churn |-> 0, added |-> 0, removed |-> 0])
              res == ProcessTrueChurn(DictGet(line_history, filename, EmptyDict), author, diff)
          IN /\ lines_by_file' =
                    DictPut(lines_by_file, filename,
                            [churn |-> old.churn + DiffCount(diff, "+") + DiffCount(diff, "-"),
                             added |-> old.added + DiffCount(diff, "+"),
                             removed |-> old.removed + DiffCount(diff, "-")])
             /\ IF diff = <<>>
                THEN UNCHANGED <<line_history, true_churn_metrics>>
                ELSE /\ line_history' = DictPut(line_history, filename, res.history)
                     /\ true_churn_metrics' =
                            [total_contribution |->
                                 true_churn_metrics.total_contribution + res.contribution,
                             total_churn |-> true_churn_metrics.total_churn + res.churn,
                             per_author |->
                                 DictPut(true_churn_metrics.per_author, author,
                                         AddChurn(DictGet(true_churn_metrics.per_author,
                                                          author, NoChurn), res)),
                             per_file |->
                                 DictPut(true_churn_metrics.per_file, filename,
                                         AddChurn(DictGet(true_churn_metrics.per_file,
                                                          filename, NoChurn), res))]
    /\ UNCHANGED outsideChurn

NextChurn ==
    \/ ChurnProcessCommit

(***************************************************************************)
(* Merging the Contributors snapshots of the chunks                         *)
(***************************************************************************)

\* The commits one chunk may hold.
ChunkHistories ==
    UNION {[1..n -> PoolCommits("contributors")] : n \in 1..MaxChunkCommits}

InitMerge ==
    /\ chunk_metrics = <<>>
    /\ merged_metrics = <<>>

\* all_chunk_metrics.append(chunk_result['metrics']): the snapshot of a
\* ContributorsMetric that was fed the commits of one chunk.
AppendChunkMetrics ==
    /\ merged_metrics = <<>>
    /\ Len(chunk_metrics) < MaxMerged
    /\ \E R \in ChunkHistories :
          chunk_metrics' = Append(chunk_metrics, ContribSnap(R))
    /\ UNCHANGED <<merged_metrics, outsideMerge>>

\* ContributorsMetric.merge_metrics(chunk_metrics)
MergeChunkMetrics ==
    /\ merged_metrics = <<>>
    /\ chunk_metrics # <<>>
    /\ merged_metrics' = <<ContribMerge(chunk_metrics)>>
    /\ UNCHANGED <<chunk_metrics, outsideMerge>>

NextMerge == AppendChunkMetrics \/ MergeChunkMetrics

\* The accumulators freshly built and the scheduler with max_workers workers.
InitAll ==
    /\ InitMetrics
    /\ InitSched
    /\ InitMem
    /\ InitWeeks
    /\ InitSplit
    /\ InitRepo
    /\ InitMerge
    /\ InitCall
    /\ InitDelta
    /\ InitCode
    /\ InitChurn

\* The scheduler with n workers; the accumulators are not fed.
InitWorkers(n) ==
    /\ InitAll
    /\ pool = "files"
    /\ max_workers = n

\* The scheduler at rest and no week buckets in use.
InitDriver == InitWorkers(MaxWorkers) /\ rangeEnd = Days(6)

InitMetricsSpec ==
    InitAll /\ max_workers = MaxWorkers /\ rangeEnd = Days(6) /\ NoSplit /\ NoRepo
InitSchedSpec == InitDriver /\ NoSplit /\ NoRepo
InitWeeksSpec == InitWorkers(MaxWorkers) /\ NoSplit /\ NoRepo
InitQueueSpec == InitWorkers(1) /\ rangeEnd = Days(6) /\ NoSplit /\ NoRepo
InitSplitSpec ==
    InitDriver /\ path = "chunked" /\ commit_times = <<>> /\ batch_size = 1
InitChunkedSpec ==
    /\ InitDriver
    /\ since = 0
    /\ to = Days(MaxChunkedDays)
    /\ path = "chunked"
    /\ commit_times \in SmallRepos(since, to)
    /\ batch_size = 1
InitOutputSpec ==
    /\ InitDriver
    /\ since = 0
    /\ to = Days(MaxChunkedDays)
    /\ commit_times \in SmallRepos(since, to)
    /\ \/ path = "single" /\ batch_size \in BatchSizes /\ chunk_count = 2
       \/ path = "chunked" /\ batch_size = 1
InitEstimateSpec ==
    /\ InitDriver
    /\ to = since + Days(MaxSplitDays)
    /\ chunk_count = 2
    /\ path = "estimate"
    /\ commit_times \in {RepoOfSize(n, since, to) : n \in RepoSizes}
    /\ batch_size = 1

\* The metric accumulators being fed and read, the scheduler at rest.
SpecMetrics == InitMetricsSpec /\ [][NextMetrics]_vars

\* The scheduler with its workers and a client that submits and stops.
SpecSched == InitSchedSpec /\ [][NextSched]_vars

\* The scheduler with its workers and a client that submits a batch of
\* repositories and asks for status, results and statistics.
SpecQueries == InitSchedSpec /\ [][NextQueries]_vars

\* The scheduler with its workers, its memory watch and the machine's memory.
SpecMemory == InitSchedSpec /\ [][NextMemory]_vars

\* Workers that keep running, a client that submits a batch and may stop the
\* scheduler: a worker thread that can take a step eventually takes one.
NextStop == SubmitBatch \/ Stop \/ \E w \in WorkerIds : WorkerStep(w)

SpecStop ==
    /\ InitSchedSpec
    /\ [][NextStop]_vars
    /\ \A w \in WorkerIds : WF_vars(WorkerStep(w))

\* The traversal loop of calculate_metrics dispatching commits to buckets.
SpecWeeks == InitWeeksSpec /\ [][NextWeeks]_vars

\* One worker serving a burst of submissions.
SpecQueue == InitQueueSpec /\ [][NextQueue]_vars

\* split_date_range applied to a requested range.
SpecSplit == InitSplitSpec /\ [][NextSplit]_vars

\* process_repo_directly in its chunked branch.
SpecChunked == InitChunkedSpec /\ [][NextChunked]_vars

\* process_repo_directly in either branch, writing the "commits" array.
SpecOutput == InitOutputSpec /\ [][NextOutput]_vars

\* Calls of process_repos_with_scheduler, one after the other, on the
\* shared scheduler and its workers.
SpecRepos == InitQueueSpec /\ [][NextRepos]_vars

\* DiffDeltaMetric over the chunks of a history and the merge of its results.
SpecDelta == InitSchedSpec /\ [][NextDelta]_vars

\* MeaningfulCodeMetric being handed the commits of a history.
SpecCode == InitSchedSpec /\ [][NextCode]_vars

\* EnhancedCodeChurn being handed the commits of a history.
SpecChurn == InitSchedSpec /\ [][NextChurn]_vars

\* Chunk snapshots of the Contributors metric being collected and merged.
SpecMerge == InitSchedSpec /\ [][NextMerge]_vars

\* process_repo_directly up to the choice between its two branches.
SpecEstimate == InitEstimateSpec /\ [][NextEstimate]_vars

(***************************************************************************)
(* Claims about the scheduler                                               *)
(***************************************************************************)
InQueue(j) == \E i \in 1..Len(heap) : heap[i].job = j
HeldByWorker(j) == \E w \in Workers : wjob[w] = j
InFailedTable(j) == JobId(j) \in DOMAIN failed /\ failed[JobId(j)] = j
RaisedEveryTime(j) == execCount[j] >= 1 /\ raiseCount[j] = execCount[j]

\* C8: a job whose function raised on every attempt so far is still on its
\* way (in the queue or in a worker's hands) after at most max_retries + 1
\* executions, or it is in the failed table after exactly max_retries + 1
\* executions and is not queued again.
C8_FailingJobRetriedThenFailed ==
    \A j \in 1..Len(jobs) :
        RaisedEveryTime(j) =>
            /\ execCount[j] <= jobs[j].max_retries + 1
            /\ InFailedTable(j) =>
                  execCount[j] = jobs[j].max_retries + 1 /\ ~InQueue(j)
            /\ ~InFailedTable(j) => InQueue(j) \/ HeldByWorker(j)

Dequeues(w) == wpc[w] = "idle" /\ wpc'[w] = "got"

\* C9: whenever a worker dequeues a job, no job left in the queue has a
\* strictly higher priority number than the job taken.
C9_DequeueTakesHighestPriority ==
    [][\A w \in Workers :
          Dequeues(w) =>
              \A i \in 1..Len(heap') :
                  jobs[heap'[i].job].priority <= jobs[wjob'[w]].priority]_vars

WorkerAtActiveTable(w) == wpc[w] \in {"add_active", "del_active"}
WorkerAtDoneTables(w) == wpc[w] \in {"store_completed", "store_failed"}
ClientAtActiveTable == cpc = "status_active"
ClientAtDoneTables ==
    cpc \in {"status_completed", "status_failed", "result_completed", "result_failed"}

\* C10 as stated: every read and write of the active, completed and failed
\* tables, by workers and by status/result queries, is made by a thread that
\* holds the lock.
C10_AllTablesUnderOneLock ==
    /\ \A w \in Workers :
          WorkerAtActiveTable(w) \/ WorkerAtDoneTables(w) => lock = w
    /\ ClientAtActiveTable \/ ClientAtDoneTables => lock = Client

\* C10 amended: the lock guards the active table only.  A worker adding or
\* removing an entry of the active table and get_job_status looking a job up
\* in it hold the lock; the completed and failed tables are written by
\* workers and read by the queries by threads that do not hold it.
C10_OnlyActiveTableUnderLock ==
    /\ \A w \in Workers :
          /\ WorkerAtActiveTable(w) => lock = w
          /\ WorkerAtDoneTables(w) => lock # w
    /\ ClientAtActiveTable => lock = Client
    /\ ClientAtDoneTables => lock # Client

\* A worker is about to write the completed table while the client holds the
\* lock for its look-up in the active table.
C10_WriteCompletedWhileLockHeld ==
    \E w \in Workers :
        /\ wpc[w] = "store_completed"
        /\ cpc = "status_active"
        /\ lock = Client

(***************************************************************************)
(* Claims about the memory watch                                            *)
(***************************************************************************)
SchedulerWaiting == spc \in {"wait_percent", "wait_available"}

\* Usage at least 5 points below the cap and available memory at least the
\* floor plus 500 MB.
Recovered(vm) ==
    /\ vm.percent <= max_memory_percent - 5
    /\ vm.available >= min_free_memory_mb + 500

\* C11: while the scheduler thread has detected memory pressure and waits
\* for the memory to recover, and the memory has not recovered, no worker
\* takes a job from the queue to execute it.
C11_NoAdmissionUnderPressure ==
    [][(SchedulerWaiting /\ ~Recovered(mem)) =>
          \A w \in Workers : ~Dequeues(w)]_vars

\* C12: the scheduler thread leaves its wait only in a state in which the
\* memory has recovered.
C12_WaitLeftOnlyWhenRecovered ==
    [][(SchedulerWaiting /\ ~SchedulerWaiting') => Recovered(mem)]_vars

(***************************************************************************)
(* Claims about stop()                                                      *)
(***************************************************************************)
Running(j) == \E w \in Workers : wjob[w] = j /\ wpc[w] = "run"

\* The outcome of job j is on record: the job is in the completed table, in
\* the failed table, or back in the queue for its retry.
Recorded(j) ==
    \/ JobId(j) \in DOMAIN completed
    \/ JobId(j) \in DOMAIN failed
    \/ InQueue(j)

TimesIn(bucket, commit) ==
    Cardinality({i \in 1..Len(bucket) : bucket[i] = commit})

WeeksHolding(commit) == {l \in DOMAIN weekSeen : TimesIn(weekSeen[l], commit) > 0}

\* C14: every commit dispatched is counted once by the overall accumulators
\* and by the accumulators of at most one weekly bucket, there once.
C14_CommitInAtMostOneWeek ==
    \A k \in 1..Len(overallSeen) :
        LET commit == overallSeen[k]
        IN /\ TimesIn(overallSeen, commit) = 1
           /\ Cardinality(WeeksHolding(commit)) <= 1
           /\ \A l \in WeeksHolding(commit) : TimesIn(weekSeen[l], commit) = 1

\* The range has several weeks, one commit went to a week's bucket and
\* another one to the overall accumulators only.
C14_CommitsInAndBetweenWeeks ==
    /\ Cardinality(DOMAIN weekSeen) >= 2
    /\ \E k \in 1..Len(overallSeen) : Cardinality(WeeksHolding(overallSeen[k])) = 1
    /\ \E k \in 1..Len(overallSeen) : WeeksHolding(overallSeen[k]) = {}

(***************************************************************************)
(* Claims about splitting the requested range                               *)
(***************************************************************************)

Splitted == date_chunks # <<>>

\* The indexes of the sub-ranges that hold timestamp t.
ChunksHolding(t) ==
    {i \in 1..Len(date_chunks) : date_chunks[i].start <= t /\ t <= date_chunks[i].end}

\* C15: the sub-ranges split_date_range returns start at start, end at end,
\* follow each other without overlap, and every commit timestamp t with
\* start <= t <= end lies in exactly one of them.
C15_SubRangesCoverRange ==
    Splitted =>
        /\ date_chunks[1].start = since
        /\ date_chunks[Len(date_chunks)].end = to
        /\ \A i \in 1..(Len(date_chunks) - 1) :
               date_chunks[i].end < date_chunks[i + 1].start
        /\ \A t \in since..to : Cardinality(ChunksHolding(t)) = 1

(***************************************************************************)
(* Claims about the driver                                                  *)
(***************************************************************************)

\* The number of commits in the requested range.
CommitsInRange == Len(Traverse(commit_times, since, to))

BranchTaken == path \in {"chunked", "single"}

\* C16: the repository goes through the chunked split-and-merge path if and
\* only if the requested range holds at least 500 commits.
C16_ChunkedIffAtLeast500 ==
    BranchTaken => (path = "chunked" <=> CommitsInRange >= 500)

\* How often commit k stands in the "commits" array.
TimesWritten(k) == CountOf(out, CommitLine(k))

\* The commits process_repo_chunk finds in chunk i.
CommitsOfChunk(i) == Traverse(commit_times, date_chunks[i].start, date_chunks[i].end)

ChunkedDone == path = "done" /\ chunk_i > 0

\* C17: once the chunked branch is through, the "commits" array holds every
\* commit of every chunk exactly once.
C17_EveryChunkCommitWrittenOnce ==
    ChunkedDone =>
        \A i \in 1..Len(date_chunks) :
            \A n \in 1..Len(CommitsOfChunk(i)) : TimesWritten(CommitsOfChunk(i)[n]) = 1

\* Elements with exactly one separator between two of them, none in front
\* of the first and none behind the last.
WellSeparated(text) ==
    \/ text = <<>>
    \/ /\ Len(text) % 2 = 1
       /\ \A n \in 1..Len(text) : (text[n] = Separator) <=> (n % 2 = 0)

RECURSIVE ChangesAt(_, _)
\* How many of the file changes carry path f as their new_path: the changes
\* made to the file that had path f when they were made.
ChangesAt(files, f) ==
    IF files = <<>> THEN 0
    ELSE (IF Head(files).new_path = f THEN 1 ELSE 0) + ChangesAt(Tail(files), f)

RECURSIVE ChangesInHistory(_, _)
ChangesInHistory(h, f) ==
    IF h = <<>> THEN 0
    ELSE ChangesAt(Head(h).files, f) + ChangesInHistory(Tail(h), f)

PathsSeen == {"a", "b", "c"}

\* C19: every change is counted under the path its file has in that commit:
\* under a rename's new_path from the rename onward, while the counts made
\* before the rename stay with the old path, whatever the renames are.
C19_ChangesCountedUnderCurrentPath ==
    \A f \in PathsSeen :
        DictGet(CommitsGet(commitsAcc), f, 0) = ChangesInHistory(hist, f)

(***************************************************************************)
(* Claims about the Contributors result                                     *)
(***************************************************************************)

\* total[f] >= minor[f] >= 0 for every file of the result.
MinorWithinTotal(m) ==
    \A f \in (DOMAIN m.total) \cup (DOMAIN m.minor) :
        /\ DictGet(m.total, f, 0) >= DictGet(m.minor, f, 0)
        /\ DictGet(m.minor, f, 0) >= 0

\* C20: every Contributors snapshot, and every result of merging chunk
\* snapshots, has total[f] >= minor[f] >= 0 for every file f.
C20_TotalAtLeastMinor ==
    /\ \A i \in 1..Len(chunk_metrics) : MinorWithinTotal(chunk_metrics[i])
    /\ \A i \in 1..Len(merged_metrics) : MinorWithinTotal(merged_metrics[i])

(***************************************************************************)
(* Claims about the single-unit branch                                      *)
(***************************************************************************)

SingleDone == path = "done" /\ date_chunks = <<>>

\* The commits whose lines stand in the "commits" array, in the order written.
WrittenCommits == [n \in 1..Len(SelectSeq(out, LAMBDA t : t # Separator)) |->
                      SelectSeq(out, LAMBDA t : t # Separator)[n][2]]

\* C28: when the single-unit traversal has ended, every commit whose summary
\* was extracted stands in the "commits" array exactly once, in traversal
\* order, and none is left in the in-memory batch.
C28_ExtractedCommitsAllWritten ==
    SingleDone =>
        /\ Len(WrittenCommits) = processed_commits
        /\ \A n \in 1..(Len(WrittenCommits) - 1) : WrittenCommits[n] < WrittenCommits[n + 1]
        /\ commits_batch = <<>>

(***************************************************************************)
(* Claims about the gaps between the weekly ranges                          *)
(***************************************************************************)

\* C29: every commit of the requested range that was dispatched to the
\* overall accumulators was dispatched to exactly one weekly bucket.
C29_EveryCommitInExactlyOneWeek ==
    \A k \in 1..Len(overallSeen) : Cardinality(WeeksHolding(overallSeen[k])) = 1

(***************************************************************************)
(* Claims about the sessions of a developer                                 *)
(***************************************************************************)

\* The indexes of developer d's commits in the history, which is in
\* chronological order.
CommitsBy(d) == {k \in 1..Len(hist) : hist[k].author = d}

\* The commits of d that open a maximal group: d's first commit, and every
\* commit made more than 2 hours after d's previous one.
OpensGroup(d, k) ==
    \A j \in CommitsBy(d) :
        (j < k /\ \A m \in CommitsBy(d) : ~(j < m /\ m < k))
            => hist[k].ts - hist[j].ts > max_commit_gap

MaximalGroups(d) == Cardinality({k \in CommitsBy(d) : OpensGroup(d, k)})

\* C25: in every snapshot, each developer's total_sessions is the number of
\* maximal groups of that developer's commits in which chronologically
\* consecutive commits are at most 2 hours apart.
C25_SessionsAreMaximalGroups ==
    \A n \in 1..Len(snaps) :
        \A d \in DOMAIN snaps[n].developer_hours :
            snaps[n].developer_hours[d].total_sessions = MaximalGroups(d)

(***************************************************************************)
(* Claims about the fate of submitted jobs                                  *)
(***************************************************************************)

InCompletedTable(j) == JobId(j) \in DOMAIN completed /\ completed[JobId(j)] = j

\* C26: no submitted job is lost: at every moment a submitted job is in the
\* queue, in a worker's hands, or in exactly one of the completed and failed
\* tables, so that it can still end, or has ended, in one of the two tables.
C26_NoSubmittedJobLost ==
    \A j \in 1..Len(jobs) :
        /\ InQueue(j) \/ HeldByWorker(j) \/ InCompletedTable(j) \/ InFailedTable(j)
        /\ ~(InCompletedTable(j) /\ InFailedTable(j))

(***************************************************************************)
(* Claims about the active table                                            *)
(***************************************************************************)

InActiveTable(j) == JobId(j) \in DOMAIN active /\ active[JobId(j)] = j

RunBy(j) == {w \in Workers : wjob[w] = j /\ wpc[w] = "run"}

\* C27: a job whose function is being executed by a worker is in the active
\* table, and no job is executed by two workers at once.
C27_RunningJobsAreInActiveTable ==
    \A j \in 1..Len(jobs) :
        /\ Running(j) => InActiveTable(j)
        /\ Cardinality(RunBy(j)) <= 1

(***************************************************************************)
(* Claims about the results of process_repos_with_scheduler                 *)
(***************************************************************************)

\* C30: what the call got for the k-th job it submitted is the result of
\* that Job's own execution, or None when that Job itself ended in the
\* failed table; never what an earlier Job left under the same job id.
C30_ResultsAreOfOwnJobs ==
    \A k \in 1..Len(results) :
        IF results[k] = NoJob THEN InFailedTable(call_jobs[k])
        ELSE results[k] = call_jobs[k]

(***************************************************************************)
(* Claims about the diff delta of a developer                               *)
(***************************************************************************)

\* The diff_delta values of a developer's weeks, in the order of the weeks.
WeeklyDeltas(weekly_velocity) ==
    LET weeks == DOMAIN weekly_velocity
        Rank(w) == Cardinality({v \in weeks : v <= w})
    IN [i \in 1..Cardinality(weeks) |->
           weekly_velocity[CHOOSE w \in weeks : Rank(w) = i].diff_delta]

SumsUp(metrics) ==
    \A developer \in DOMAIN metrics :
        FloatSum(WeeklyDeltas(metrics[developer].weekly_velocity))
            = metrics[developer].total_diff_delta

\* C21: for every developer the diff_delta of the weeks add up to
\* total_diff_delta: in the accumulator after any commits, in the result of
\* every chunk, and in the merge of the chunk results.
C21_WeeklyDeltasSumToTotal ==
    /\ SumsUp(developer_stats)
    /\ \A i \in 1..Len(velocity_metrics) : SumsUp(velocity_metrics[i])
    /\ SumsUp(merged_velocity)

(***************************************************************************)
(* Claims about unrealistic commits                                         *)
(***************************************************************************)

\* The changed lines of the commits of the log that were taken for unrealistic.
UnrealisticLines ==
    SumSeq([i \in 1..Len(code_log) |->
               IF code_log[i].type = None THEN 0 ELSE code_log[i].total_changes])

\* C22: skipped_lines is the sum of the changed lines of exactly the
\* commits classified as unrealistic; other commits add nothing to it.
C22_SkippedLinesAreOfUnrealisticCommits ==
    unrealistic_commits.skipped_lines = UnrealisticLines

\* The commits before the i-th by the same author, and whether the one just
\* before was made less than rapid_commit_minutes earlier.
EarlierBySameAuthor(i) == {j \in 1..(i - 1) : code_log[j].author = code_log[i].author}

SoonAfterPrevious(i) ==
    /\ EarlierBySameAuthor(i) # {}
    /\ LET j == CHOOSE x \in EarlierBySameAuthor(i) : \A y \in EarlierBySameAuthor(i) : y <= x
       IN code_log[i].ts - code_log[j].ts < rapid_commit_minutes

\* C23: a commit of at most 5 000 changed lines is a rapid-large commit
\* exactly when it changes more than 1 000 lines and the author's previous
\* commit, however that one was classified, was less than 10 minutes earlier.
C23_RapidLargeIffSoonAfterPrevious ==
    \A i \in 1..Len(code_log) :
        code_log[i].total_changes <= large_commit_changes =>
            (code_log[i].type = "rapid_large_commit"
                <=> (code_log[i].total_changes > rapid_commit_changes /\ SoonAfterPrevious(i)))

(***************************************************************************)
(* Claims about true churn                                                  *)
(***************************************************************************)

\* The added lines of the diffs that true churn has processed.
AddedLinesProcessed ==
    SumSet(DOMAIN lines_by_file, [f \in DOMAIN lines_by_file |-> lines_by_file[f].added])

\* C24: every added line goes to exactly one of contribution and churn, so
\* the two together are the number of added lines processed.
C24_ContributionPlusChurnIsAddedLines ==
    true_churn_metrics.total_contribution + true_churn_metrics.total_churn
        = AddedLinesProcessed

====
